---- MODULE Spec2Model ----
(***************************************************************************)
(* Model of the Gemini chat exporter: the content script's incremental     *)
(* loader, fingerprinting and deduplication (src/src/content.js), with the *)
(* page's virtualized view as the environment.                             *)
(*                                                                         *)
(* content.js holds two listeners for the extractChat message: the turn    *)
(* listener (lines 3-755), which appends while scrolling up and reverses   *)
(* at the end, and the user-query/model-response listener (lines 759-1366),*)
(* which prepends.  A run is one invocation of one listener; its variant   *)
(* says which ("turn" or "prepend").                                       *)
(*                                                                         *)
(* Strings are sequences of one-character strings.  JavaScript runs each   *)
(* stretch of code between two awaits to completion, so every action of a  *)
(* run is one such stretch, and the page changes only between them.        *)
(***************************************************************************)
EXTENDS Integers, Sequences, FiniteSets, TLC

VARIABLES
  \* the page: the conversation and what the virtualized view shows of it
  conv, visible, scrollTop, scrollHeight, clientHeight, viewChanges,
  \* extractChat requests still to arrive, and the listener runs by request
  pending, run,
  \* deduplicateMessages applied to a drawn input
  dIn, dOut, dOut2, dStage,
  \* the popup (src/src/popup.js) and the URL of the active tab
  tab, popup,
  \* one call of a function of the program: its input and what it returned
  call

viewVars == <<conv, visible, scrollTop, scrollHeight, clientHeight, viewChanges>>
runVars == <<pending, run>>
dedupVars == <<dIn, dOut, dOut2, dStage>>
popupVars == <<tab, popup>>
vars == <<viewVars, runVars, dedupVars, popupVars, call>>

----------------------------------------------------------------------------
(* Strings *)

Min(a, b) == IF a < b THEN a ELSE b
Max(a, b) == IF a > b THEN a ELSE b
Abs(a) == IF a < 0 THEN -a ELSE a

Rep(c, n) == [i \in 1..n |-> c]

\* the characters String.prototype.trim removes, as far as they are modelled
Whitespace == {" ", "\n", "\t"}

RECURSIVE TrimStart(_)
TrimStart(s) ==
  IF s = <<>> THEN <<>>
  ELSE IF Head(s) \in Whitespace THEN TrimStart(Tail(s)) ELSE s

RECURSIVE TrimEnd(_)
TrimEnd(s) ==
  IF s = <<>> THEN <<>>
  ELSE IF s[Len(s)] \in Whitespace THEN TrimEnd(SubSeq(s, 1, Len(s) - 1)) ELSE s

\* String.prototype.trim
Trim(s) == TrimEnd(TrimStart(s))

\* s.substring(0, n)
Substring0(s, n) == SubSeq(s, 1, Min(n, Len(s)))

DigitChars == <<"0", "1", "2", "3", "4", "5", "6", "7", "8", "9">>

\* the decimal text of a natural number, as string concatenation produces it
RECURSIVE NumberToString(_)
NumberToString(n) ==
  IF n < 10 THEN <<DigitChars[n + 1]>>
  ELSE NumberToString(n \div 10) \o <<DigitChars[(n % 10) + 1]>>

----------------------------------------------------------------------------
(* Fingerprint and deduplication *)

\* the prefix length of hashContent
HashPrefixLen == 100

\* lines 767-771 and 187-191
hashContent(content) ==
  IF content = <<>> THEN <<>>
  ELSE Trim(Substring0(content, HashPrefixLen)) \o <<"|">>
         \o NumberToString(Len(content))

\* the for loop of deduplicateMessages, from its i-th message on
RECURSIVE DedupLoop(_, _, _, _)
DedupLoop(msgs, i, seen, result) ==
  IF i > Len(msgs) THEN result
  ELSE LET hash == hashContent(msgs[i].content) IN
       IF hash \in seen
       THEN DedupLoop(msgs, i + 1, seen, result)
       ELSE DedupLoop(msgs, i + 1, seen \cup {hash}, Append(result, msgs[i]))

Reverse(s) == [i \in 1..Len(s) |-> s[Len(s) + 1 - i]]

\* deduplicateMessages compares whole contents instead of fingerprints: a mutant
RECURSIVE DedupByContent(_, _, _, _)
DedupByContent(msgs, i, seen, result) ==
  IF i > Len(msgs) THEN result
  ELSE IF msgs[i].content \in seen
       THEN DedupByContent(msgs, i + 1, seen, result)
       ELSE DedupByContent(msgs, i + 1, seen \cup {msgs[i].content},
                           Append(result, msgs[i]))

deduplicateByContent(msgs) == DedupByContent(msgs, 1, {}, <<>>)

\* deduplicateMessages builds its result with unshift instead of push: a mutant
deduplicateUnshift(msgs) == Reverse(DedupLoop(msgs, 1, {}, <<>>))

deduplicateMessages(msgs) == DedupLoop(msgs, 1, {}, <<>>)

----------------------------------------------------------------------------
(* The page *)

\* bounds of the model
MaxRequests == 2
MaxViewChanges == 3

A == <<"a">>
B == <<"b">>
C == <<"c">>
\* two contents with the same first 100 characters and the same length
LongX == Rep("a", HashPrefixLen) \o <<"x">>
LongY == Rep("a", HashPrefixLen) \o <<"y">>

UserQuery(t, text) == [turn |-> t, tag |-> "USER-QUERY", text |-> text]
ModelResponse(t, text) == [turn |-> t, tag |-> "MODEL-RESPONSE", text |-> text]

\* conversations: distinct messages; a repeated message (the second copy's
\* markup carries padding); colliding fingerprints; nothing extractable
ConvDistinct == <<UserQuery(1, A), ModelResponse(1, B), UserQuery(2, C)>>
ConvRepeat == <<UserQuery(1, A), ModelResponse(1, B), UserQuery(2, <<" ", "a">>)>>
ConvCollide == <<UserQuery(1, LongX), ModelResponse(1, LongY)>>
ConvBlank == <<UserQuery(1, <<" ">>), ModelResponse(1, <<>>)>>
Conversations == {ConvDistinct, ConvRepeat, ConvCollide, ConvBlank}

\* viewport and content heights of the scroll container, in pixels
ClientHeights == {1000}
Heights == {1700, 2400}

MaxTop(h) == Max(0, h - clientHeight)
\* the browser keeps scrollTop within [0, scrollHeight - clientHeight]
Clamp(v, h) == Max(0, Min(v, MaxTop(h)))

\* the elements of a set of indices, in document order
RECURSIVE Ordered(_)
Ordered(S) ==
  IF S = {} THEN <<>>
  ELSE LET m == CHOOSE x \in S : \A y \in S : x <= y
       IN <<m>> \o Ordered(S \ {m})

----------------------------------------------------------------------------
(* Normalization, as far as the loader depends on it *)

\* htmlToMarkdown on markup-free text without newlines or role labels: the
\* tag rewriting, entity decoding, newline collapsing and label removal leave
\* such text alone, and the trailing-blank removal and final trim remain
htmlToMarkdown(html) == Trim(html)

extractMessageContent(el) == htmlToMarkdown(el.text)

RoleOf(el) == IF el.tag = "USER-QUERY" THEN "user" ELSE "assistant"

----------------------------------------------------------------------------
(* One extraction pass *)

\* what a pass has done to the Seen-Set, the messages it found new, and
\* (history) whether it met a fingerprint it had already seen
PassStart(seen) == [seen |-> seen, new |-> <<>>, re |-> FALSE]

\* the emptiness test of lines 1138 and 1154 is lost (a mutant)
VisitElementKeepEmpty(el, acc) ==
  LET content == extractMessageContent(el)
      hash == hashContent(content)
  IN IF hash \notin acc.seen
     THEN [seen |-> acc.seen \cup {hash},
           new |-> Append(acc.new, [role |-> RoleOf(el), content |-> Trim(content)]),
           re |-> acc.re]
     ELSE [acc EXCEPT !.re = TRUE]

\* the fingerprint of a new message is not added to the Seen-Set (a mutant)
VisitElementUnrecorded(el, acc) ==
  LET content == extractMessageContent(el)
      hash == hashContent(content)
  IN IF content # <<>> /\ Trim(content) # <<>>
     THEN IF hash \notin acc.seen
          THEN [seen |-> acc.seen,
                new |-> Append(acc.new, [role |-> RoleOf(el), content |-> Trim(content)]),
                re |-> acc.re]
          ELSE [acc EXCEPT !.re = TRUE]
     ELSE acc

\* the Seen-Set keeps the role with the fingerprint (a mutant)
VisitElementByRole(el, acc) ==
  LET content == extractMessageContent(el)
      hash == <<RoleOf(el)>> \o hashContent(content)
  IN IF content # <<>> /\ Trim(content) # <<>>
     THEN IF hash \notin acc.seen
          THEN [seen |-> acc.seen \cup {hash},
                new |-> Append(acc.new, [role |-> RoleOf(el), content |-> Trim(content)]),
                re |-> acc.re]
          ELSE [acc EXCEPT !.re = TRUE]
     ELSE acc

\* one message element of a pass: lines 1136-1141 and 1151-1157 (the
\* user-query/model-response listener), lines 114-120 and 124-130 (the turn
\* listener, whose test "content &&" equals this one on trimmed content)
VisitElement(el, acc) ==
  LET content == extractMessageContent(el)
      hash == hashContent(content)
  IN IF content # <<>> /\ Trim(content) # <<>>
     THEN IF hash \notin acc.seen
          THEN [seen |-> acc.seen \cup {hash},
                new |-> Append(acc.new, [role |-> RoleOf(el), content |-> Trim(content)]),
                re |-> acc.re]
          ELSE [acc EXCEPT !.re = TRUE]
     ELSE acc

\* the elements of a pass, in the order the pass visits them
RECURSIVE VisitAll(_, _)
VisitAll(els, acc) ==
  IF els = <<>> THEN acc ELSE VisitAll(Tail(els), VisitElement(Head(els), acc))

\* document.querySelectorAll('user-query, model-response'): document order
MessageElements(vis) == [i \in 1..Cardinality(vis) |-> conv[Ordered(vis)[i]]]

\* the turn containers in the document, and within each the first user-query
\* and the first model-response (querySelector), the user's first
TurnElements(vis) ==
  LET turns == {conv[i].turn : i \in vis}
      first(t, tag) ==
        LET S == {i \in vis : conv[i].turn = t /\ conv[i].tag = tag}
        IN IF S = {} THEN <<>> ELSE <<conv[CHOOSE x \in S : \A y \in S : x <= y]>>
      RECURSIVE walk(_)
      walk(ts) ==
        IF ts = <<>> THEN <<>>
        ELSE first(Head(ts), "USER-QUERY") \o first(Head(ts), "MODEL-RESPONSE")
               \o walk(Tail(ts))
  IN walk(Ordered(turns))

\* history: the conversation elements whose content a pass could emit
Emittable(vis) == {i \in vis : Trim(extractMessageContent(conv[i])) # <<>>}

\* messages.unshift(...newMessages) replaces the array: a mutant
AddNewReplacing(msgs, new, prepend) ==
  IF prepend /\ new # <<>> THEN new ELSE msgs \o new

\* new messages are pushed whatever the mode: a mutant
AddNewPush(msgs, new, prepend) == msgs \o new

\* lines 1163-1167: new messages go to the front when prepending
AddNew(msgs, new, prepend) ==
  IF prepend /\ new # <<>> THEN new \o msgs ELSE msgs \o new

\* the Seen-Set test is lost: every element of the pass counts as new (a mutant)
extractVisibleMessagesUnseen(l, prepend) ==
  LET acc == VisitAll(MessageElements(visible), PassStart({}))
  IN [l EXCEPT !.messages = AddNew(@, acc.new, prepend /\ l.variant = "prepend"),
               !.seenContent = @ \cup acc.seen,
               !.observed = @ \cup Emittable(visible),
               !.lastAct = "extract"]

\* history: the elements, by position in the conversation, that a pass over
\* ids finds new
RECURSIVE NewIn(_, _)
NewIn(ids, seen) ==
  IF ids = <<>> THEN <<>>
  ELSE LET content == extractMessageContent(conv[Head(ids)])
           hash == hashContent(content)
       IN IF content # <<>> /\ Trim(content) # <<>> /\ hash \notin seen
          THEN <<Head(ids)>> \o NewIn(Tail(ids), seen \cup {hash})
          ELSE NewIn(Tail(ids), seen)

\* history: the batch is newer than everything accumulated when it is
\* appended, and older when it is prepended
Orderly(new, found, prepend) ==
  \A i \in DOMAIN new, j \in DOMAIN found :
    IF prepend THEN new[i] < found[j] ELSE new[i] > found[j]

\* the messages a pass pushes when the test "!seenContent.has(hash)" of lines
\* 1138 and 1154 is left out: every element with text, in document order
RECURSIVE VisitAllUnfiltered(_)
VisitAllUnfiltered(els) ==
  IF els = <<>> THEN <<>>
  ELSE LET content == extractMessageContent(Head(els))
       IN (IF content # <<>> /\ Trim(content) # <<>>
           THEN <<[role |-> RoleOf(Head(els)), content |-> Trim(content)]>>
           ELSE <<>>) \o VisitAllUnfiltered(Tail(els))

\* history of a pass of the user-query/model-response listener
Recorded(l, e, prepend) ==
  IF l.variant # "prepend" THEN e
  ELSE LET new == NewIn(Ordered(visible), l.seenContent)
       IN [e EXCEPT !.found = AddNew(@, new, prepend),
                    !.orderly = @ /\ Orderly(new, l.found, prepend),
                    !.added = IF new = <<>> THEN @
                              ELSE @ \cup {IF prepend THEN "prepend" ELSE "append"},
                    !.unfiltered =
                       deduplicateMessages(
                         AddNew(@, VisitAllUnfiltered(MessageElements(visible)), prepend))]

\* extractVisibleMessages(messages, seenContent, prepend): lines 1123-1168;
\* in the turn listener (lines 569-587, 86-132) every new message is pushed
extractVisibleMessages(l, prepend) ==
  LET els == IF l.variant = "prepend" THEN MessageElements(visible)
             ELSE TurnElements(visible)
      acc == VisitAll(els, PassStart(l.seenContent))
  IN Recorded(l,
              [l EXCEPT !.messages = AddNew(@, acc.new, prepend /\ l.variant = "prepend"),
                        !.seenContent = acc.seen,
                        !.observed = @ \cup Emittable(visible),
                        !.reReported = @ \/ acc.re,
                        !.lastAct = "extract"],
              prepend)

----------------------------------------------------------------------------
(* The listener and autoScrollConversation *)

maxScrolls == 500
\* the caps of the stabilization loop: "while (adaptiveLoops < 5)", "< 3"
maxAdaptivePrepend == 5
maxAdaptiveTurn == 3
\* "stuckCount >= 3", "Math.abs(...) < 10" and "currentScrollTop <= 10"
stuckLimit == 3
moveThreshold == 10
topThreshold == 10

Reqs == 1..MaxRequests

NoResponse == [success |-> FALSE, error |-> "", messageCount |-> 0, list |-> <<>>]
NoContentError ==
  "No chat messages found. Make sure you are on a Gemini chat page with an active conversation."
FailurePrefix == "Failed to extract chat: "

\* a listener run that has not been started
Idle ==
  [pc |-> "idle", variant |-> "prepend", messages |-> <<>>, seenContent |-> {},
   scrollStep |-> 0, stuckCount |-> 0, scrollCount |-> 0,
   previousScrollTop |-> 0, previousScrollHeight |-> 0,
   currentScrollTop |-> 0, currentScrollHeight |-> 0, adaptiveLoops |-> 0,
   response |-> NoResponse,
   \* history
   sent |-> 0, observed |-> {}, reReported |-> FALSE, advances |-> 0,
   polls |-> 0, everMoved |-> FALSE, everGrew |-> FALSE, faulted |-> FALSE,
   \* history of the user-query/model-response listener: the conversation
   \* elements behind the accumulated messages, whether every batch so far
   \* was newer (bottom passes) or older (later passes) than what was
   \* accumulated, the modes that added messages, and the accumulator the
   \* same batches give when the Seen-Set test is left out (kept deduplicated:
   \* deduplicateMessages keeps first occurrences, so deduplicating after
   \* each pass leaves the final deduplication as it is)
   found |-> <<>>, orderly |-> TRUE, added |-> {}, unfiltered |-> <<>>,
   \* history: the last positioning of the view by the loader and its last
   \* operation on the page
   lastScroll |-> "none", lastAct |-> "none"]

\* the largest power of two below n, for n > 1
RECURSIVE PowerBelowFrom(_, _)
PowerBelowFrom(n, p) == IF 2 * p < n THEN PowerBelowFrom(n, 2 * p) ELSE p
PowerBelow(n) == PowerBelowFrom(n, 1)

\* Math.floor(h * 0.7) in binary floating point.  The number 0.7 is stored
\* as 0.7 - 0.4 * 2^-53, so the exact product is 0.7h less 0.4h * 2^-53, and
\* it is rounded to the nearest number that can be stored.  When 7h/10 is not
\* whole, its floor is not affected.  When it is a whole number n, with
\* p < n <= 2p for a power of two p, the numbers below n that can be stored
\* are p * 2^-52 apart: the product rounds to n, unless 0.4h is more than p
\* (0.4h = p rounds to n, the even one), and then to a number just below n.
FloorSevenTenths(h) ==
  LET n == (h * 7) \div 10
  IN IF h > 0 /\ h % 10 = 0 /\ 2 * h > 5 * PowerBelow(n) THEN n - 1 ELSE n

\* Math.floor(h * 0.9): 0.9 is stored as 0.9 + 0.2 * 2^-53, and a product a
\* little above a whole number has that number as its floor
FloorNineTenths(h) == (h * 9) \div 10

\* Math.max(400, Math.floor(h * 0.7)) and Math.max(500, Math.floor(h * 0.9))
ScrollStepOf(v, h) ==
  IF v = "prepend" THEN Max(400, FloorSevenTenths(h)) ELSE Max(500, FloorNineTenths(h))

AdaptiveLimit(v) == IF v = "prepend" THEN maxAdaptivePrepend ELSE maxAdaptiveTurn

\* sendResponse(r)
Send(l, r) == [l EXCEPT !.pc = "done", !.response = r, !.sent = @ + 1]

\* the exception is swallowed and nothing is sent: a mutant
CatchSilent(l) == [l EXCEPT !.pc = "done"]

\* the catch block: lines 1355-1360 and 744-749
Catch(l) ==
  Send(l, [success |-> FALSE, error |-> FailurePrefix, messageCount |-> 0, list |-> <<>>])

\* history: an exception is thrown in the try block
Throw(l) == [l EXCEPT !.faulted = TRUE, !.lastAct = "throw"]

\* the empty test is lost and an empty sequence is rendered: a mutant
RespondAlways(l, renderThrows) ==
  LET d == deduplicateMessages(l.messages)
  IN Send(l, [success |-> TRUE, error |-> "", messageCount |-> Len(d), list |-> d])

\* after autoScrollConversation: lines 1335-1354 and 724-743.  getChatTitle
\* holds no operation that throws; formatAsMarkdown may (renderThrows)
Respond(l, renderThrows) ==
  LET d == deduplicateMessages(l.messages)
      dedupedMessages == IF l.variant = "turn" THEN Reverse(d) ELSE d
  IN IF Len(dedupedMessages) = 0
     THEN Send(l, [success |-> FALSE, error |-> NoContentError,
                   messageCount |-> 0, list |-> <<>>])
     ELSE IF renderThrows THEN Catch(Throw(l))
     ELSE Send(l, [success |-> TRUE, error |-> "",
                   messageCount |-> Len(dedupedMessages), list |-> dedupedMessages])

\* the extractions at the top go on from wherever the scroll loop ended: a mutant
AfterLoopInPlace(l, top, renderThrows) ==
  LET e == extractVisibleMessages(l, TRUE)
  IN IF l.variant = "prepend"
     THEN [l |-> [e EXCEPT !.pc = "top1"], top |-> top]
     ELSE [l |-> Respond(e, renderThrows), top |-> top]

\* after the scroll loop: lines 1297-1302; lines 700-702 and the return
AfterLoop(l, top, renderThrows) ==
  LET e == extractVisibleMessages(l, TRUE)
  IN IF l.variant = "prepend"
     THEN [l |-> [e EXCEPT !.pc = "top1", !.lastScroll = "setScrollTop(0)",
                           !.lastAct = "scroll"],
           top |-> Clamp(0, scrollHeight)]
     ELSE [l |-> Respond(e, renderThrows), top |-> top]

\* the loop continues at the cap instead of below it: a mutant
LoopHeadOffByOne(l, top, renderThrows) ==
  IF l.scrollCount <= maxScrolls
  THEN [l |-> [l EXCEPT !.previousScrollTop = top,
                        !.previousScrollHeight = scrollHeight,
                        !.pc = "advance", !.advances = @ + 1, !.polls = 0,
                        !.lastScroll = "scrollBy", !.lastAct = "scroll"],
        top |-> Clamp(top - l.scrollStep, scrollHeight)]
  ELSE AfterLoop(l, top, renderThrows)

\* the head of the scroll loop up to its first await: lines 1238-1247, 641-650
LoopHead(l, top, renderThrows) ==
  IF l.scrollCount < maxScrolls
  THEN [l |-> [l EXCEPT !.previousScrollTop = top,
                        !.previousScrollHeight = scrollHeight,
                        !.pc = "advance", !.advances = @ + 1, !.polls = 0,
                        !.lastScroll = "scrollBy", !.lastAct = "scroll"],
        top |-> Clamp(top - l.scrollStep, scrollHeight)]
  ELSE AfterLoop(l, top, renderThrows)

\* stuck detection needs four unmoved advances: a mutant
LoopTailSlack(l, top, renderThrows) ==
  LET grew == l.currentScrollHeight > l.previousScrollHeight
      unmoved == Abs(l.currentScrollTop - l.previousScrollTop) < moveThreshold
      stuck == IF unmoved THEN (IF grew THEN 0 ELSE l.stuckCount) + 1 ELSE 0
      l2 == [l EXCEPT !.stuckCount = stuck, !.everMoved = @ \/ ~unmoved,
                      !.everGrew = @ \/ grew]
  IN IF (unmoved /\ stuck >= stuckLimit + 1) \/ l.currentScrollTop <= topThreshold
     THEN AfterLoop(l2, top, renderThrows)
     ELSE LoopHead([l2 EXCEPT !.scrollCount = @ + 1], top, renderThrows)

\* the end of one advance, after stabilization: lines 1274-1294, 677-697
LoopTail(l, top, renderThrows) ==
  LET grew == l.currentScrollHeight > l.previousScrollHeight
      unmoved == Abs(l.currentScrollTop - l.previousScrollTop) < moveThreshold
      stuck == IF unmoved THEN (IF grew THEN 0 ELSE l.stuckCount) + 1 ELSE 0
      l2 == [l EXCEPT !.stuckCount = stuck, !.everMoved = @ \/ ~unmoved,
                      !.everGrew = @ \/ grew]
  IN IF (unmoved /\ stuck >= stuckLimit) \/ l.currentScrollTop <= topThreshold
     THEN AfterLoop(l2, top, renderThrows)
     ELSE LoopHead([l2 EXCEPT !.scrollCount = @ + 1], top, renderThrows)

\* one stabilization poll after its sleep: lines 1258-1272, 661-675
PollStep(l, top, renderThrows) ==
  LET e == [extractVisibleMessages(l, TRUE) EXCEPT !.polls = @ + 1]
      newScrollHeight == scrollHeight
      newMessageCount == Len(e.messages)
  IN IF newScrollHeight = l.currentScrollHeight /\ newMessageCount = Len(e.messages)
     THEN LoopTail(e, top, renderThrows)
     ELSE LET l2 == [e EXCEPT !.currentScrollHeight = newScrollHeight,
                              !.adaptiveLoops = @ + 1]
          IN IF l2.adaptiveLoops < AdaptiveLimit(l.variant)
             THEN [l |-> [l2 EXCEPT !.pc = "poll"], top |-> top]
             ELSE LoopTail(l2, top, renderThrows)

\* after the sleep that follows scrollBy: lines 1249-1259, 652-662
AdvanceStep(l, top) ==
  [l |-> [extractVisibleMessages(l, TRUE) EXCEPT
            !.currentScrollTop = top, !.currentScrollHeight = scrollHeight,
            !.adaptiveLoops = 0, !.pc = "poll"],
   top |-> top]

\* from the second bottom extraction (turn listener: the first extraction) to
\* the first scrollBy: lines 1229-1247, 632-650
EnterLoop(l, top, renderThrows) ==
  LoopHead([extractVisibleMessages(l, FALSE) EXCEPT
              !.scrollStep = ScrollStepOf(l.variant, clientHeight),
              !.stuckCount = 0, !.scrollCount = 0],
           top, renderThrows)

\* the listener up to its first await: lines 1325-1333 with 1178-1222, and
\* lines 714-722 with 597-650
Start(v, top, renderThrows) ==
  LET l == [Idle EXCEPT !.variant = v]
  IN IF v = "prepend"
     THEN [l |-> [l EXCEPT !.pc = "bottom1", !.lastScroll = "setScrollTop(scrollHeight)",
                           !.lastAct = "scroll"],
           top |-> Clamp(scrollHeight, scrollHeight)]
     ELSE EnterLoop(l, top, renderThrows)

Variants == {"turn", "prepend"}
Awaiting(l) == l.pc \notin {"idle", "done"}

\* a stretch of listener code ends as computed, or in the catch block when an
\* extraction in it throws
Finish(r, res, throws) ==
  IF throws
  THEN /\ run' = [run EXCEPT ![r] = Catch(Throw(@))]
       /\ UNCHANGED scrollTop
  ELSE /\ run' = [run EXCEPT ![r] = res.l]
       /\ scrollTop' = res.top

Frame == UNCHANGED <<conv, visible, scrollHeight, clientHeight, viewChanges, dedupVars, popupVars, call>>

\* an extractChat message reaches the content script
Receive(r) ==
  /\ pending > 0
  /\ run[r].pc = "idle"
  /\ \A q \in Reqs : q < r => run[q].pc # "idle"
  /\ pending' = pending - 1
  /\ \E v \in Variants, throws \in BOOLEAN, renderThrows \in BOOLEAN :
       /\ throws => v = "turn"
       /\ IF throws
          THEN run' = [run EXCEPT ![r] = Catch(Throw([Idle EXCEPT !.variant = v]))]
                 /\ UNCHANGED scrollTop
          ELSE LET res == Start(v, scrollTop, renderThrows)
               IN run' = [run EXCEPT ![r] = res.l] /\ scrollTop' = res.top
  /\ Frame

\* sleep(200) at the bottom is over: line 1225, then sleep(100)
AfterBottom1(r) ==
  /\ run[r].pc = "bottom1"
  /\ \E throws \in BOOLEAN :
       Finish(r, [l |-> [extractVisibleMessages(run[r], FALSE) EXCEPT !.pc = "bottom2"],
                  top |-> scrollTop], throws)
  /\ UNCHANGED pending /\ Frame

\* sleep(100) is over
AfterBottom2(r) ==
  /\ run[r].pc = "bottom2"
  /\ \E throws \in BOOLEAN, renderThrows \in BOOLEAN :
       Finish(r, EnterLoop(run[r], scrollTop, renderThrows), throws)
  /\ UNCHANGED pending /\ Frame

\* the sleep after scrollBy is over
AfterAdvance(r) ==
  /\ run[r].pc = "advance"
  /\ \E throws \in BOOLEAN : Finish(r, AdvanceStep(run[r], scrollTop), throws)
  /\ UNCHANGED pending /\ Frame

\* the sleep of a stabilization poll is over
AfterPoll(r) ==
  /\ run[r].pc = "poll"
  /\ \E throws \in BOOLEAN, renderThrows \in BOOLEAN :
       Finish(r, PollStep(run[r], scrollTop, renderThrows), throws)
  /\ UNCHANGED pending /\ Frame

\* sleep(300) at the top is over: line 1303, then sleep(200)
AfterTop1(r) ==
  /\ run[r].pc = "top1"
  /\ \E throws \in BOOLEAN :
       Finish(r, [l |-> [extractVisibleMessages(run[r], TRUE) EXCEPT !.pc = "top2"],
                  top |-> scrollTop], throws)
  /\ UNCHANGED pending /\ Frame

\* sleep(200) is over: lines 1307-1311
AfterTop2(r) ==
  /\ run[r].pc = "top2"
  /\ \E throws \in BOOLEAN :
       Finish(r, [l |-> [extractVisibleMessages(run[r], TRUE) EXCEPT
                           !.pc = "top3", !.lastScroll = "setScrollTop(0)",
                           !.lastAct = "scroll"],
                  top |-> Clamp(0, scrollHeight)], throws)
  /\ UNCHANGED pending /\ Frame

\* the last sleep(200) is over: line 1312, and the listener answers
AfterTop3(r) ==
  /\ run[r].pc = "top3"
  /\ \E throws \in BOOLEAN, renderThrows \in BOOLEAN :
       Finish(r, [l |-> Respond(extractVisibleMessages(run[r], TRUE), renderThrows),
                  top |-> scrollTop], throws)
  /\ UNCHANGED pending /\ Frame

----------------------------------------------------------------------------
(* The page, while a listener sleeps *)

\* the view materialises other messages and its content height changes; the
\* browser keeps the scroll position within the new range
ViewChange ==
  /\ \E r \in Reqs : Awaiting(run[r])
  /\ viewChanges < MaxViewChanges
  /\ viewChanges' = viewChanges + 1
  /\ \E vis \in SUBSET DOMAIN conv, h \in Heights :
       /\ visible' = vis
       /\ scrollHeight' = h
       /\ scrollTop' = Clamp(scrollTop, h)
       /\ <<vis, h, scrollTop'>> # <<visible, scrollHeight, scrollTop>>
  /\ UNCHANGED <<conv, clientHeight, pending, run, dedupVars, popupVars, call>>

\* a page that keeps moving: its content height changes and it pins the
\* scroll position to the bottom, at every sleep
ViewDrift ==
  /\ \E r \in Reqs : Awaiting(run[r])
  /\ \E h \in Heights :
       /\ scrollHeight' = h
       /\ scrollTop' = MaxTop(h)
       /\ <<h, scrollTop'>> # <<scrollHeight, scrollTop>>
  /\ UNCHANGED <<conv, visible, clientHeight, viewChanges, pending, run, dedupVars, popupVars, call>>

----------------------------------------------------------------------------
(* Specifications *)

DedupOff == dIn = <<>> /\ dOut = <<>> /\ dOut2 = <<>> /\ dStage = "off"

\* no popup has been opened, and no function is called on its own
NoTab == [present |-> FALSE, url |-> <<>>]
NoResult == [success |-> FALSE, notGemini |-> FALSE, error |-> "", messageCount |-> 0]
PopupClosed ==
  [pc |-> "closed", initDone |-> FALSE, controls |-> FALSE,
   handler |-> "none", read |-> NoTab,
   listening |-> FALSE, result |-> NoResult, shown |-> "none",
   \* the disabled property of the two buttons, and (history) the number of
   \* calls of handleExport and handleCopy that have not finished
   exportDisabled |-> FALSE, copyDisabled |-> FALSE, running |-> 0,
   clicks |-> 0, sent |-> 0, delivered |-> 0, hostOk |-> 0]
NoCall == [fn |-> "none"]
Apart == tab = NoTab /\ popup = PopupClosed /\ call = NoCall

InitView(convs) ==
  /\ conv \in convs
  /\ visible \in SUBSET DOMAIN conv
  /\ clientHeight \in ClientHeights
  /\ scrollHeight \in Heights
  /\ scrollTop \in {0, MaxTop(scrollHeight)}
  /\ viewChanges = 0

\* one request against any of the conversations
Init ==
  /\ InitView(Conversations)
  /\ pending = 1
  /\ run = [r \in Reqs |-> Idle]
  /\ DedupOff
  /\ Apart

Step(r) ==
  \/ Receive(r)
  \/ AfterBottom1(r)
  \/ AfterBottom2(r)
  \/ AfterAdvance(r)
  \/ AfterPoll(r)
  \/ AfterTop1(r)
  \/ AfterTop2(r)
  \/ AfterTop3(r)

Next == (\E r \in Reqs : Step(r)) \/ ViewChange

Spec == Init /\ [][Next]_vars

\* one request against a page that shows no message and keeps moving
InitLoop ==
  /\ InitView({<<>>})
  /\ pending = 1
  /\ run = [r \in Reqs |-> Idle]
  /\ DedupOff
  /\ Apart

NextLoop == (\E r \in Reqs : Step(r)) \/ ViewDrift

SpecLoop == InitLoop /\ [][NextLoop]_vars

\* two requests (a popup reopened while the first export still scrolls)
\* against a one-message conversation
InitConc ==
  /\ InitView({<<UserQuery(1, A)>>})
  /\ pending = MaxRequests
  /\ run = [r \in Reqs |-> Idle]
  /\ DedupOff
  /\ Apart

\* the page itself is still: only the listeners move the view
NextConc == \E r \in Reqs : Step(r)

SpecConc == InitConc /\ [][NextConc]_vars

----------------------------------------------------------------------------
(* deduplicateMessages as a function of its input *)

MaxLen == 3

Contents == {<<>>, A, B, LongX, LongY}
Messages == [role : {"user", "assistant"}, content : Contents]

RECURSIVE SeqsUpTo(_)
SeqsUpTo(n) ==
  IF n = 0 THEN {<<>>}
  ELSE LET shorter == SeqsUpTo(n - 1)
       IN shorter \cup {Append(m, x) : m \in {s \in shorter : Len(s) = n - 1},
                                       x \in Messages}

InitDedup ==
  /\ conv = <<>> /\ visible = {}
  /\ clientHeight = 1000 /\ scrollHeight = 1700 /\ scrollTop = 0
  /\ viewChanges = 0
  /\ pending = 0
  /\ run = [r \in Reqs |-> Idle]
  /\ dIn \in SeqsUpTo(MaxLen)
  /\ dOut = <<>> /\ dOut2 = <<>>
  /\ dStage = "in"
  /\ Apart

DedupOnce ==
  /\ dStage = "in"
  /\ dOut' = deduplicateMessages(dIn)
  /\ dStage' = "once"
  /\ UNCHANGED <<viewVars, runVars, dIn, dOut2, popupVars, call>>

DedupTwice ==
  /\ dStage = "once"
  /\ dOut2' = deduplicateMessages(dOut)
  /\ dStage' = "twice"
  /\ UNCHANGED <<viewVars, runVars, dIn, dOut, popupVars, call>>

NextDedup == DedupOnce \/ DedupTwice

SpecDedup == InitDedup /\ [][NextDedup]_vars

----------------------------------------------------------------------------
(* The background script: src/src/background.js *)

\* the most 'download' messages the background script is sent on its own
MaxDownloads == 3

\* error.message of a rejected browser.downloads.download
DownloadErrors == {"Download canceled by the user", "filename must not contain illegal characters"}

NoDownloadResponse == [success |-> FALSE, error |-> ""]

\* A 'download' message and what the listener has done for it: sent by
\* runtime.sendMessage; the listener has made the blob URL and called
\* downloads.download ("downloading"); the promise is fulfilled and the timer
\* of line 17 is set ("started"); the timer has run ("cleaned"); the promise
\* was rejected ("failed").  History: the calls of sendResponse and of
\* URL.revokeObjectURL for its URL.
Download(id) ==
  [id |-> id, pc |-> "sent", url |-> FALSE, timer |-> FALSE,
   responses |-> 0, response |-> NoDownloadResponse, revoked |-> 0]

Background == [fn |-> "background", downloads |-> <<>>]

\* popup.js line 122: the promise of downloadMarkdown is dropped, and what
\* the background script answers changes nothing in the popup
OnDownloadResponseShown(p, response) ==
  IF response.success THEN p ELSE [p EXCEPT !.shown = "error"]

OnDownloadResponse(p, response) == p

\* runtime.sendMessage({action: 'download', ...}): popup.js lines 67-73
Post(c) ==
  IF c.fn = "background"
  THEN [c EXCEPT !.downloads = Append(@, Download(Len(@) + 1))]
  ELSE c

\* the timer of line 17 is not set (a mutant)
ThenNoTimer(d) ==
  [d EXCEPT !.pc = "cleaned", !.responses = @ + 1,
            !.response = [success |-> TRUE, error |-> ""]]

\* lines 15-19
Then(d) ==
  [d EXCEPT !.pc = "started", !.timer = TRUE, !.responses = @ + 1,
            !.response = [success |-> TRUE, error |-> ""]]

\* lines 19-22
CatchDownload(d, message) ==
  [d EXCEPT !.pc = "failed", !.revoked = @ + 1, !.responses = @ + 1,
            !.response = [success |-> FALSE, error |-> message]]

BackgroundFrame == UNCHANGED <<viewVars, runVars, dedupVars, tab>>

\* the listener on a 'download' message, to its return: lines 4-14 and 24
OnDownload(i) ==
  /\ call.fn = "background" /\ i \in DOMAIN call.downloads
  /\ call.downloads[i].pc = "sent"
  /\ call' = [call EXCEPT !.downloads[i].pc = "downloading", !.downloads[i].url = TRUE]
  /\ UNCHANGED popup /\ BackgroundFrame

\* a popup that is open is given the response
GivenResponse(d) ==
  IF popup.pc = "closed" THEN popup ELSE OnDownloadResponse(popup, d.response)

\* the download has started
DownloadStarts(i) ==
  /\ call.fn = "background" /\ i \in DOMAIN call.downloads
  /\ call.downloads[i].pc = "downloading"
  /\ \E d \in {Then(call.downloads[i])} :
       /\ call' = [call EXCEPT !.downloads[i] = d]
       /\ popup' = GivenResponse(d)
  /\ BackgroundFrame

\* the download has not started: the file dialog was dismissed, or the
\* browser refused the file
DownloadFails(i) ==
  /\ call.fn = "background" /\ i \in DOMAIN call.downloads
  /\ call.downloads[i].pc = "downloading"
  /\ \E message \in DownloadErrors :
       \E d \in {CatchDownload(call.downloads[i], message)} :
         /\ call' = [call EXCEPT !.downloads[i] = d]
         /\ popup' = GivenResponse(d)
  /\ BackgroundFrame

\* the timer of line 17 runs, a second after the download started
TimerFires(i) ==
  /\ call.fn = "background" /\ i \in DOMAIN call.downloads
  /\ call.downloads[i].timer
  /\ call' = [call EXCEPT !.downloads[i].timer = FALSE,
                          !.downloads[i].revoked = @ + 1,
                          !.downloads[i].pc = "cleaned"]
  /\ UNCHANGED popup /\ BackgroundFrame

BackgroundStep(i) ==
  OnDownload(i) \/ DownloadStarts(i) \/ DownloadFails(i) \/ TimerFires(i)

----------------------------------------------------------------------------
(* The popup: src/src/popup.js *)

\* String.prototype.includes
Includes(s, sub) ==
  \E i \in 0..(Len(s) - Len(sub)) : SubSeq(s, i + 1, i + Len(sub)) = sub

GeminiHost ==
  <<"g", "e", "m", "i", "n", "i", ".", "g", "o", "o", "g", "l", "e", ".", "c", "o", "m">>
UrlGemini ==
  <<"h", "t", "t", "p", "s", ":", "/", "/", "g", "e", "m", "i", "n", "i", ".", "g", "o", "o", "g", "l", "e", ".", "c", "o", "m", "/", "a", "p", "p">>
UrlOther ==
  <<"h", "t", "t", "p", "s", ":", "/", "/", "e", "x", "a", "m", "p", "l", "e", ".", "o", "r", "g", "/">>
UrlNearMiss ==
  <<"h", "t", "t", "p", "s", ":", "/", "/", "g", "e", "m", "i", "n", "i", ".", "g", "o", "o", "g", "l", "e", ".", "c", "o", "/", "m">>
UrlQuery ==
  <<"h", "t", "t", "p", "s", ":", "/", "/", "e", "x", "a", "m", "p", "l", "e", ".", "o", "r", "g", "/", "?", "g", "e", "m", "i", "n", "i", ".", "g", "o", "o", "g", "l", "e", ".", "c", "o", "m">>

\* the active tab as browser.tabs.query reports it; url may be missing
Tabs ==
  {NoTab} \cup {[present |-> TRUE, url |-> u] :
                  u \in {UrlGemini, UrlOther, UrlNearMiss, UrlQuery}}

NotGeminiResult ==
  [success |-> FALSE, notGemini |-> TRUE, error |-> "", messageCount |-> 0]
CommunicationError ==
  "Could not communicate with the page. Please refresh the Gemini page and try again. Error: "
HandlerFailed == "failed: "

\* the URL test of line 83 is lost (a mutant)
extractChatUnchecked(t) == [kind |-> "send"]

\* extractChat from the tab that tabs.query returned to its return or its
\* sendMessage: lines 81-88; tab.url.includes throws when url is missing
extractChat(t) ==
  IF ~t.present THEN [kind |-> "throw"]
  ELSE IF ~Includes(t.url, GeminiHost)
       THEN [kind |-> "return", result |-> NotGeminiResult]
       ELSE [kind |-> "send"]

\* only the button that was clicked is disabled (a mutant)
DisableOwn(p, h) ==
  IF h = "export" THEN [p EXCEPT !.exportDisabled = TRUE]
  ELSE [p EXCEPT !.copyDisabled = TRUE]

\* lines 105-106 and 145-146
Disable(p, h) == [p EXCEPT !.exportDisabled = TRUE, !.copyDisabled = TRUE]

\* the finally blocks of lines 135-138 and 174-177
Finally(p) ==
  [p EXCEPT !.exportDisabled = FALSE, !.copyDisabled = FALSE, !.running = @ - 1]

\* handleExport and handleCopy on the result of extractChat: lines 114-138
\* and 154-177; fails: navigator.clipboard.writeText rejects
Handle(p, result, fails) ==
  LET q == Finally([p EXCEPT !.pc = "idle", !.result = result])
  IN IF result.notGemini
     THEN [q EXCEPT !.controls = FALSE, !.shown = "notGemini"]
     ELSE IF ~result.success THEN [q EXCEPT !.shown = "error"]
     ELSE IF fails
          THEN [q EXCEPT !.shown = "error", !.result.error = HandlerFailed]
          ELSE [q EXCEPT !.shown = "success"]

\* the catch blocks of lines 132-134 and 171-173
HandleThrow(p) ==
  Finally([p EXCEPT !.pc = "idle", !.shown = "error", !.result.error = HandlerFailed])

PopupFrame == UNCHANGED <<viewVars, run, dedupVars, call>>

\* the popup opens: the script runs to the await of init (line 182), the
\* controls showing; the counts of the earlier popups are history
Open ==
  /\ popup.pc = "closed"
  /\ popup' = [popup EXCEPT !.pc = "idle", !.controls = TRUE, !.initDone = FALSE]
  /\ UNCHANGED <<tab, pending>> /\ PopupFrame

\* init after tabs.query: lines 183-188
AfterInit ==
  /\ popup.pc # "closed" /\ ~popup.initDone
  /\ popup' = [popup EXCEPT !.initDone = TRUE,
                            !.controls = @ /\ tab.present /\ Includes(tab.url, GeminiHost)]
  /\ UNCHANGED <<tab, pending>> /\ PopupFrame

\* a click on a button: handleExport 105-112, handleCopy 145-152, into
\* extractChat up to the await of tabs.query (line 80).  A button gives a
\* click when it is showing and not disabled; here the user clicks while no
\* listener has work (overlapping runs are SpecConc's subject)
Click(h) ==
  /\ popup.pc # "closed" /\ popup.controls
  /\ ~(IF h = "export" THEN popup.exportDisabled ELSE popup.copyDisabled)
  /\ popup.clicks < MaxRequests
  /\ pending = 0 /\ \A r \in Reqs : ~Awaiting(run[r])
  /\ popup' = [Disable(popup, h) EXCEPT !.pc = "query", !.handler = h,
                                        !.shown = "none", !.clicks = @ + 1,
                                        !.running = @ + 1]
  /\ UNCHANGED <<tab, pending>> /\ PopupFrame

\* tabs.query resolves with the tab as it is now
AfterQuery ==
  /\ popup.pc = "query"
  /\ LET e == extractChat(tab)
         p == [popup EXCEPT !.read = tab,
                 !.hostOk = IF tab.present /\ Includes(tab.url, GeminiHost)
                            THEN @ + 1 ELSE @]
     IN CASE e.kind = "throw" ->
               popup' = HandleThrow(p) /\ UNCHANGED pending
          [] e.kind = "return" ->
               popup' = Handle(p, e.result, FALSE) /\ UNCHANGED pending
          [] e.kind = "send" ->
               \E listening \in BOOLEAN :
                 /\ popup' = [p EXCEPT !.pc = "waiting", !.sent = @ + 1,
                                       !.listening = listening,
                                       !.delivered = IF listening THEN @ + 1 ELSE @]
                 /\ pending' = IF listening THEN pending + 1 ELSE pending
  /\ UNCHANGED tab /\ PopupFrame

\* no listener in the tab: sendMessage rejects (lines 92-97)
SendRejects ==
  /\ popup.pc = "waiting" /\ ~popup.listening
  /\ popup' = Handle(popup, [success |-> FALSE, notGemini |-> FALSE,
                             error |-> CommunicationError, messageCount |-> 0], FALSE)
  /\ UNCHANGED <<tab, pending>> /\ PopupFrame

\* the listener's sendResponse resolves the promise of line 88; handleExport
\* sends the 'download' message before it shows the success (lines 121-125)
Deliver ==
  /\ popup.pc = "waiting" /\ popup.listening
  /\ run[popup.delivered].pc = "done" /\ run[popup.delivered].sent > 0
  /\ \E fails \in BOOLEAN :
       /\ fails => popup.handler = "copy"
       /\ LET r == run[popup.delivered].response
          IN /\ popup' = Handle(popup, [success |-> r.success, notGemini |-> FALSE,
                                        error |-> r.error,
                                        messageCount |-> r.messageCount], fails)
             /\ call' = IF r.success /\ popup.handler = "export" THEN Post(call) ELSE call
  /\ UNCHANGED <<tab, pending, viewVars, run, dedupVars>>

\* the popup closes; what the tab was sent stays with the tab
Close ==
  /\ popup.pc # "closed"
  /\ popup' = [PopupClosed EXCEPT !.clicks = popup.clicks, !.sent = popup.sent,
                                  !.delivered = popup.delivered,
                                  !.hostOk = popup.hostOk]
  /\ UNCHANGED <<tab, pending>> /\ PopupFrame

\* the tab goes to another page while no listener has work
Navigate ==
  /\ pending = 0 /\ \A r \in Reqs : ~Awaiting(run[r])
  /\ tab' \in Tabs \ {tab}
  /\ UNCHANGED <<popup, pending>> /\ PopupFrame

InitPopup ==
  /\ conv = <<UserQuery(1, A)>> /\ visible = {1}
  /\ clientHeight = 1000 /\ scrollHeight = 1700
  /\ scrollTop \in {0, MaxTop(scrollHeight)}
  /\ viewChanges = 0
  /\ pending = 0
  /\ run = [r \in Reqs |-> Idle]
  /\ DedupOff
  /\ tab \in Tabs /\ popup = PopupClosed /\ call = Background

NextPopup ==
  \/ \E r \in Reqs : Step(r)
  \/ \E i \in 1..MaxRequests : BackgroundStep(i)
  \/ Open \/ AfterInit \/ AfterQuery \/ SendRejects \/ Deliver \/ Close
  \/ Navigate
  \/ \E h \in {"export", "copy"} : Click(h)

SpecPopup == InitPopup /\ [][NextPopup]_vars

----------------------------------------------------------------------------
(* formatAsMarkdown as a function of its input *)

TitleMark ==
  <<"#", " ">>
BlankLine ==
  <<"\n", "\n">>
ExportedOn ==
  <<"*", "E", "x", "p", "o", "r", "t", "e", "d", " ", "f", "r", "o", "m",
    " ", "G", "e", "m", "i", "n", "i", " ", "o", "n", " ">>
ExportedEnd ==
  <<"*", "\n", "\n">>
MessagesMark ==
  <<"*", "*", "M", "e", "s", "s", "a", "g", "e", "s", ":", "*", "*", " ">>
TotalMark ==
  <<" ", "t", "o", "t", "a", "l", " ", "(", "U+1F464", " ", "U", "s", "e",
    "r", ":", " ">>
GeminiCountMark ==
  <<",", " ", "U+1F916", " ", "G", "e", "m", "i", "n", "i", ":", " ">>
CountsEnd ==
  <<")", "\n", "\n">>
Rule ==
  <<"-", "-", "-", "\n", "\n">>
UserHeader ==
  <<"#", "#", " ", "U+1F464", " ", "U", "s", "e", "r">>
GeminiHeader ==
  <<"#", "#", " ", "U+1F916", " ", "G", "e", "m", "i", "n", "i">>
TimestampMark ==
  <<" ", "U+2014", " ", "*">>
TimestampEnd ==
  <<"*">>
DefaultTitle ==
  <<"G", "e", "m", "i", "n", "i", " ", "C", "h", "a", "t", " ", "E", "x",
    "p", "o", "r", "t">>


Count(messages, role) ==
  Cardinality({i \in DOMAIN messages : messages[i].role = role})

\* the four lines before the first message: lines 447-450 (1006-1009)
Preamble(messages, title, date, timezone) ==
  TitleMark \o title \o BlankLine
    \o ExportedOn \o date \o <<" ">> \o timezone \o ExportedEnd
    \o MessagesMark \o NumberToString(Len(messages)) \o TotalMark
    \o NumberToString(Count(messages, "user")) \o GeminiCountMark
    \o NumberToString(Count(messages, "assistant")) \o CountsEnd
    \o Rule

\* the rule follows the last message too (a mutant)
EmitMessageRuleAlways(msg, index, length, variant) ==
  (IF msg.role = "user" THEN UserHeader ELSE GeminiHeader)
    \o (IF variant = "turn" /\ msg.timestamp # <<>>
        THEN TimestampMark \o msg.timestamp \o TimestampEnd ELSE <<>>)
    \o BlankLine
    \o msg.content \o BlankLine
    \o Rule

\* the body of messages.forEach for one message: lines 453-469 (1012-1022);
\* only the turn listener's messages carry a timestamp
EmitMessage(msg, index, length, variant) ==
  (IF msg.role = "user" THEN UserHeader ELSE GeminiHeader)
    \o (IF variant = "turn" /\ msg.timestamp # <<>>
        THEN TimestampMark \o msg.timestamp \o TimestampEnd ELSE <<>>)
    \o BlankLine
    \o msg.content \o BlankLine
    \o (IF index < length - 1 THEN Rule ELSE <<>>)

\* messages.forEach from index on (index counts from 0)
RECURSIVE ForEachMessage(_, _, _)
ForEachMessage(messages, index, variant) ==
  IF index >= Len(messages) THEN <<>>
  ELSE EmitMessage(messages[index + 1], index, Len(messages), variant)
         \o ForEachMessage(messages, index + 1, variant)

\* formatAsMarkdown(messages, title) with the date and timezone strings that
\* new Date() gave it: lines 429-473 and 988-1026
formatAsMarkdown(messages, title, date, timezone, variant) ==
  Preamble(messages, title, date, timezone)
    \o ForEachMessage(messages, 0, variant)

\* bound of the model
MaxMessages == 3

ClockDate ==
  <<"N", "o", "v", "e", "m", "b", "e", "r", " ", "4", ",", " ", "2", "0",
    "2", "6", " ", "a", "t", " ", "0", "2", ":", "4", "1", " ", "A", "M">>
ClockZone ==
  <<"U", "T", "C">>
Stamp ==
  <<"2", ":", "4", "1", " ", "A", "M">>
TwoParagraphs ==
  <<"a", "\n", "\n", "b">>
RuleText ==
  <<"-", "-", "-">>

FormatContents == {A, RuleText, TwoParagraphs}
FormatMessages ==
  [role : {"user", "assistant"}, content : FormatContents,
   timestamp : {<<>>, Stamp}]

RECURSIVE SeqsOver(_, _)
SeqsOver(S, n) ==
  IF n = 0 THEN {<<>>}
  ELSE LET shorter == SeqsOver(S, n - 1)
       IN shorter \cup {Append(s, x) : s \in {t \in shorter : Len(t) = n - 1}, x \in S}

\* no page, no listener, no popup
Bare ==
  /\ conv = <<>> /\ visible = {}
  /\ clientHeight = 1000 /\ scrollHeight = 1700 /\ scrollTop = 0
  /\ viewChanges = 0
  /\ pending = 0
  /\ run = [r \in Reqs |-> Idle]
  /\ DedupOff
  /\ tab = NoTab /\ popup = PopupClosed

InitFormat ==
  /\ Bare
  /\ call \in [fn : {"formatAsMarkdown"}, variant : Variants,
               messages : SeqsOver(FormatMessages, MaxMessages),
               title : {A, DefaultTitle},
               date : {ClockDate}, timezone : {ClockZone},
               returned : {FALSE}, markdown : {<<>>}]

FormatAsMarkdown ==
  /\ call.fn = "formatAsMarkdown" /\ ~call.returned
  /\ call' = [call EXCEPT
                !.markdown = formatAsMarkdown(call.messages, call.title, call.date,
                                              call.timezone, call.variant),
                !.returned = TRUE]
  /\ UNCHANGED <<viewVars, runVars, dedupVars, popupVars>>

NextFormat == FormatAsMarkdown

SpecFormat == InitFormat /\ [][NextFormat]_vars

----------------------------------------------------------------------------
(* Normalization of a message element: the document tree *)

\* Where a value is computed by one statement and used by the statements
\* after it, it is written as the element v of a set of one element,
\* CHOOSE r \in {F(v) : v \in {e}} : TRUE, which is F(e) with e evaluated once.

\* A tree is a sequence of nodes and a node is known by its index, so that a
\* copy of a node is a different node.  An element has a tag, its class and
\* href and data-language attributes (empty: absent), aria-hidden, and its
\* child nodes in order; a text node has tag "#text" and its text.
Element(tag, cls, children) ==
  [tag |-> tag, cls |-> cls, href |-> <<>>, lang |-> <<>>, hidden |-> FALSE,
   text |-> <<>>, children |-> children]
TextNode(text) ==
  [tag |-> "#text", cls |-> <<>>, href |-> <<>>, lang |-> <<>>, hidden |-> FALSE,
   text |-> text, children |-> <<>>]

IsElement(dom, n) == dom[n].tag # "#text"

\* the nodes below the nodes ids, in document order
RECURSIVE Walk(_, _)
Walk(dom, ids) ==
  IF ids = <<>> THEN <<>>
  ELSE <<Head(ids)>> \o Walk(dom, dom[Head(ids)].children) \o Walk(dom, Tail(ids))

Descendants(dom, n) == Walk(dom, dom[n].children)

\* Node.textContent
RECURSIVE TextOf(_, _)
TextOf(dom, ids) ==
  IF ids = <<>> THEN <<>>
  ELSE (IF IsElement(dom, Head(ids)) THEN TextOf(dom, dom[Head(ids)].children)
        ELSE dom[Head(ids)].text) \o TextOf(dom, Tail(ids))

textContent(dom, n) == TextOf(dom, <<n>>)

\* the parent of n, or 0 for a node that has none
ParentOf(dom, n) ==
  LET P == {p \in DOMAIN dom : \E i \in DOMAIN dom[p].children : dom[p].children[i] = n}
  IN IF P = {} THEN 0 ELSE CHOOSE p \in P : TRUE

RECURSIVE HasAncestor(_, _, _)
HasAncestor(dom, n, tag) ==
  LET p == ParentOf(dom, n)
  IN p # 0 /\ (dom[p].tag = tag \/ HasAncestor(dom, p, tag))

\* nodes.forEach(u => u.remove()): each node leaves the children of its
\* parent, and keeps its own
RemoveEach(dom, ids) ==
  [i \in DOMAIN dom |->
     [dom[i] EXCEPT !.children = SelectSeq(@, LAMBDA c : \A k \in DOMAIN ids : ids[k] # c)]]

\* Element.replaceWith(m)
replaceWith(dom, n, m) ==
  LET p == ParentOf(dom, n)
  IN IF p = 0 THEN dom
     ELSE [dom EXCEPT ![p].children = [i \in DOMAIN @ |-> IF @[i] = n THEN m ELSE @[i]]]

\* the tree is used in place, without a copy (a mutant)
cloneNodeShared(dom, el) == [dom |-> dom, root |-> el]

\* el.cloneNode(true), for a tree that is el's subtree: every node is copied
\* to a new node and the copies refer to copies
cloneNode(dom, el) ==
  LET n == Len(dom)
  IN [dom |-> dom \o [i \in 1..n |->
                        [dom[i] EXCEPT !.children = [k \in DOMAIN @ |-> @[k] + n]]],
      root |-> el + n]

Class_action ==
  <<"a", "c", "t", "i", "o", "n">>
Class_toolbar ==
  <<"t", "o", "o", "l", "b", "a", "r">>
Class_copy ==
  <<"c", "o", "p", "y">>
Class_feedback ==
  <<"f", "e", "e", "d", "b", "a", "c", "k">>
Class_icon ==
  <<"i", "c", "o", "n">>
Class_avatar ==
  <<"a", "v", "a", "t", "a", "r">>
Class_thumb ==
  <<"t", "h", "u", "m", "b">>
Class_rating ==
  <<"r", "a", "t", "i", "n", "g">>
Class_menu ==
  <<"m", "e", "n", "u">>
Class_label ==
  <<"l", "a", "b", "e", "l">>
Class_header ==
  <<"h", "e", "a", "d", "e", "r">>
Class_sender ==
  <<"s", "e", "n", "d", "e", "r">>
Class_author ==
  <<"a", "u", "t", "h", "o", "r">>
MaterialIcons ==
  <<"m", "a", "t", "e", "r", "i", "a", "l", "-", "i", "c", "o", "n", "s">>
YouSaid ==
  <<"Y", "o", "u", " ", "s", "a", "i", "d">>
GeminiSaid ==
  <<"G", "e", "m", "i", "n", "i", " ", "s", "a", "i", "d">>
You ==
  <<"Y", "o", "u">>
Gemini ==
  <<"G", "e", "m", "i", "n", "i">>
Fence ==
  <<"U+0060", "U+0060", "U+0060">>
Backtick ==
  <<"U+0060">>
Newline ==
  <<"\n">>

\* the words of a class attribute
RECURSIVE ClassTokens(_)
ClassTokens(cls) ==
  IF cls = <<>> THEN {}
  ELSE IF Head(cls) \in Whitespace THEN ClassTokens(Tail(cls))
  ELSE LET ends == {i \in 1..Len(cls) : cls[i] \in Whitespace}
           e == IF ends = {} THEN Len(cls) + 1
                ELSE CHOOSE i \in ends : \A j \in ends : i <= j
       IN {SubSeq(cls, 1, e - 1)} \cup ClassTokens(SubSeq(cls, e, Len(cls)))

\* lines 803-821
unwantedSelectors ==
  <<[kind |-> "tag", arg |-> "button"],
    [kind |-> "classHas", arg |-> Class_action],
    [kind |-> "classHas", arg |-> Class_toolbar],
    [kind |-> "classHas", arg |-> Class_copy],
    [kind |-> "classHas", arg |-> Class_feedback],
    [kind |-> "classHas", arg |-> Class_icon],
    [kind |-> "classHas", arg |-> Class_avatar],
    [kind |-> "ariaHidden", arg |-> "true"],
    [kind |-> "tag", arg |-> "mat-icon"],
    [kind |-> "classToken", arg |-> MaterialIcons],
    [kind |-> "classHas", arg |-> Class_thumb],
    [kind |-> "classHas", arg |-> Class_rating],
    [kind |-> "classHas", arg |-> Class_menu],
    [kind |-> "classHas", arg |-> Class_label],
    [kind |-> "classHas", arg |-> Class_header],
    [kind |-> "classHas", arg |-> Class_sender],
    [kind |-> "classHas", arg |-> Class_author]>>

\* Element.matches for the selectors the function uses
Matches(dom, n, sel) ==
  /\ IsElement(dom, n)
  /\ CASE sel.kind = "tag" -> dom[n].tag = sel.arg
       [] sel.kind = "classHas" -> Includes(dom[n].cls, sel.arg)
       [] sel.kind = "classToken" -> sel.arg \in ClassTokens(dom[n].cls)
       [] sel.kind = "ariaHidden" -> dom[n].hidden
       [] sel.kind = "any" -> TRUE
       [] sel.kind = "codeNotInPre" ->
            dom[n].tag = "code" /\ ~HasAncestor(dom, n, "pre")

\* root.querySelectorAll(sel): a static list, in document order
querySelectorAll(dom, root, sel) ==
  SelectSeq(Descendants(dom, root), LAMBDA n : Matches(dom, n, sel))

\* lines 823-825: whether a node matches a selector does not depend on the
\* nodes removed before it, so below root the selectors taken one after the
\* other remove what they remove taken together
RemoveUnwanted(dom, root, selectors) ==
  CHOOSE r \in
    {RemoveEach(dom, ids) :
       ids \in {SelectSeq(Descendants(dom, root),
                          LAMBDA n : \E k \in DOMAIN selectors :
                                       Matches(dom, n, selectors[k]))}} : TRUE

\* the test of lines 829-833 on one node: node.children counts elements
IsLabelNode(dom, node) ==
  LET text == Trim(textContent(dom, node))
  IN /\ text \in {YouSaid, GeminiSaid, You, Gemini}
     /\ Len(text) < 20
     /\ \A i \in DOMAIN dom[node].children : ~IsElement(dom, dom[node].children[i])

\* lines 828-837: the list is in document order, so no node removed before
\* a node is inside it, and its text is what it was when the loop began
RemoveLabelNodes(dom, nodes) ==
  CHOOSE r \in
    {RemoveEach(dom, ids) :
       ids \in {SelectSeq(nodes, LAMBDA node : IsLabelNode(dom, node))}} : TRUE

LanguageDash ==
  <<"l", "a", "n", "g", "u", "a", "g", "e", "-">>
LangDash ==
  <<"l", "a", "n", "g", "-">>
DashCode ==
  <<"-", "c", "o", "d", "e">>
LowerLetters ==
  <<"a", "b", "c", "d", "e", "f", "g", "h", "i", "j", "k", "l", "m", "n",
    "o", "p", "q", "r", "s", "t", "u", "v", "w", "x", "y", "z">>
UpperLetters ==
  <<"A", "B", "C", "D", "E", "F", "G", "H", "I", "J", "K", "L", "M", "N",
    "O", "P", "Q", "R", "S", "T", "U", "V", "W", "X", "Y", "Z">>

Range(s) == {s[i] : i \in DOMAIN s}

\* \w
WordChars == Range(LowerLetters) \cup Range(UpperLetters) \cup Range(DigitChars) \cup {"_"}

StartsWithAt(s, i, lit) ==
  i >= 1 /\ i + Len(lit) - 1 <= Len(s) /\ SubSeq(s, i, i + Len(lit) - 1) = lit

\* the length of the longest run of word characters of s from position i
RECURSIVE WordRun(_, _)
WordRun(s, i) ==
  IF i <= Len(s) /\ s[i] \in WordChars THEN 1 + WordRun(s, i + 1) ELSE 0

\* /language-(\w+)|lang-(\w+)|(\w+)-code/ tried at position i: the capture
\* of the first alternative that matches there, or nothing
LanguageAt(s, i) ==
  IF StartsWithAt(s, i, LanguageDash) /\ WordRun(s, i + 9) > 0
  THEN SubSeq(s, i + 9, i + 8 + WordRun(s, i + 9))
  ELSE IF StartsWithAt(s, i, LangDash) /\ WordRun(s, i + 5) > 0
  THEN SubSeq(s, i + 5, i + 4 + WordRun(s, i + 5))
  ELSE IF WordRun(s, i) > 0 /\ StartsWithAt(s, i + WordRun(s, i), DashCode)
  THEN SubSeq(s, i, i + WordRun(s, i) - 1)
  ELSE <<>>

\* detectCodeLanguage: lines 868-884 (308-324)
detectCodeLanguage(dom, codeBlock) ==
  LET classNames == dom[codeBlock].cls
      at == {i \in 1..Len(classNames) : LanguageAt(classNames, i) # <<>>}
  IN IF at # {}
     THEN LanguageAt(classNames, CHOOSE i \in at : \A j \in at : i <= j)
     ELSE dom[codeBlock].lang

\* document.createElement(tag) with textContent = text, not in any tree:
\* the new element is the node Len(dom) + 1 of the result
CreateWithText(dom, tag, text) ==
  dom \o <<Element(tag, <<>>, <<Len(dom) + 2>>), TextNode(text)>>

\* lines 842-849, for one pre
ReplaceCodeBlock(dom, pre) ==
  LET found == querySelectorAll(dom, pre, [kind |-> "tag", arg |-> "code"])
      codeEl == IF found # <<>> THEN Head(found) ELSE pre
      first == detectCodeLanguage(dom, codeEl)
      language == IF first # <<>> THEN first ELSE detectCodeLanguage(dom, pre)
      codeText == textContent(dom, codeEl)
      text == Newline \o Fence \o language \o Newline \o codeText
                \o Newline \o Fence \o Newline
  IN CHOOSE r \in {replaceWith(withMarker, pre, Len(dom) + 1) :
                     withMarker \in {CreateWithText(dom, "div", text)}} : TRUE

\* lines 840-850
RECURSIVE ReplaceCodeBlocks(_, _)
ReplaceCodeBlocks(dom, codeBlocks) ==
  IF codeBlocks = <<>> THEN dom
  ELSE CHOOSE r \in {ReplaceCodeBlocks(replaced, rest) :
                       replaced \in {ReplaceCodeBlock(dom, Head(codeBlocks))},
                       rest \in {Tail(codeBlocks)}} : TRUE

\* lines 854-856, for one code element
ReplaceCode(dom, code) ==
  LET text == Backtick \o textContent(dom, code) \o Backtick
  IN CHOOSE r \in {replaceWith(withMarker, code, Len(dom) + 1) :
                     withMarker \in {CreateWithText(dom, "span", text)}} : TRUE

\* lines 853-857
RECURSIVE ReplaceInlineCode(_, _)
ReplaceInlineCode(dom, codes) ==
  IF codes = <<>> THEN dom
  ELSE CHOOSE r \in {ReplaceInlineCode(replaced, rest) :
                       replaced \in {ReplaceCode(dom, Head(codes))},
                       rest \in {Tail(codes)}} : TRUE

----------------------------------------------------------------------------
(* Normalization of a message element: innerHTML and htmlToMarkdown *)

AttrClass ==
  <<" ", "c", "l", "a", "s", "s", "=", "\"">>
AttrHref ==
  <<" ", "h", "r", "e", "f", "=", "\"">>
AttrDataLanguage ==
  <<" ", "d", "a", "t", "a", "-", "l", "a", "n", "g", "u", "a", "g", "e",
    "=", "\"">>
AttrAriaHidden ==
  <<" ", "a", "r", "i", "a", "-", "h", "i", "d", "d", "e", "n", "=", "\"",
    "t", "r", "u", "e", "\"">>
Quote ==
  <<"\"">>
Amp ==
  <<"&", "a", "m", "p", ";">>
Lt ==
  <<"&", "l", "t", ";">>
Gt ==
  <<"&", "g", "t", ";">>
Quot ==
  <<"&", "q", "u", "o", "t", ";">>
Nbsp ==
  <<"&", "n", "b", "s", "p", ";">>
HrefIs ==
  <<"h", "r", "e", "f", "=", "\"">>
Stars ==
  <<"*", "*">>
Star ==
  <<"*">>
Dash ==
  <<"-", " ">>
YouSaidLower ==
  <<"y", "o", "u", " ", "s", "a", "i", "d">>
GeminiSaidLower ==
  <<"g", "e", "m", "i", "n", "i", " ", "s", "a", "i", "d">>

\* the characters of a tag name
TagChars(tag) ==
  CASE tag = "div" -> <<"d", "i", "v">>
    [] tag = "span" -> <<"s", "p", "a", "n">>
    [] tag = "p" -> <<"p">>
    [] tag = "b" -> <<"b">>
    [] tag = "strong" -> <<"s", "t", "r", "o", "n", "g">>
    [] tag = "em" -> <<"e", "m">>
    [] tag = "i" -> <<"i">>
    [] tag = "a" -> <<"a">>
    [] tag = "ul" -> <<"u", "l">>
    [] tag = "ol" -> <<"o", "l">>
    [] tag = "li" -> <<"l", "i">>
    [] tag = "pre" -> <<"p", "r", "e">>
    [] tag = "code" -> <<"c", "o", "d", "e">>
    [] tag = "button" -> <<"b", "u", "t", "t", "o", "n">>
    [] tag = "br" -> <<"b", "r">>
    [] tag = "h1" -> <<"h", "1">>
    [] tag = "h2" -> <<"h", "2">>
    [] tag = "h3" -> <<"h", "3">>
    [] tag = "h4" -> <<"h", "4">>
    [] tag = "h5" -> <<"h", "5">>
    [] tag = "h6" -> <<"h", "6">>
    [] tag = "mat-icon" -> <<"m", "a", "t", "-", "i", "c", "o", "n">>

VoidTags == {"br"}

\* the HTML serialization of text: & < > and the no-break space are escaped
RECURSIVE EscapeText(_)
EscapeText(text) ==
  IF text = <<>> THEN <<>>
  ELSE (CASE Head(text) = "&" -> Amp
          [] Head(text) = "<" -> Lt
          [] Head(text) = ">" -> Gt
          [] Head(text) = "U+00A0" -> Nbsp
          [] OTHER -> <<Head(text)>>) \o EscapeText(Tail(text))

\* of an attribute value: & " and the no-break space are escaped
RECURSIVE EscapeAttr(_)
EscapeAttr(value) ==
  IF value = <<>> THEN <<>>
  ELSE (CASE Head(value) = "&" -> Amp
          [] Head(value) = "\"" -> Quot
          [] Head(value) = "U+00A0" -> Nbsp
          [] OTHER -> <<Head(value)>>) \o EscapeAttr(Tail(value))

StartTag(node) ==
  <<"<">> \o TagChars(node.tag)
    \o (IF node.cls # <<>> THEN AttrClass \o EscapeAttr(node.cls) \o Quote ELSE <<>>)
    \o (IF node.href # <<>> THEN AttrHref \o EscapeAttr(node.href) \o Quote ELSE <<>>)
    \o (IF node.lang # <<>> THEN AttrDataLanguage \o EscapeAttr(node.lang) \o Quote
        ELSE <<>>)
    \o (IF node.hidden THEN AttrAriaHidden ELSE <<>>)
    \o <<">">>

EndTag(node) ==
  IF node.tag \in VoidTags THEN <<>> ELSE <<"<", "/">> \o TagChars(node.tag) \o <<">">>

RECURSIVE Serialize(_, _)
Serialize(dom, ids) ==
  IF ids = <<>> THEN <<>>
  ELSE LET node == dom[Head(ids)]
       IN (IF node.tag = "#text" THEN EscapeText(node.text)
           ELSE StartTag(node) \o Serialize(dom, node.children) \o EndTag(node))
            \o Serialize(dom, Tail(ids))

\* Element.innerHTML
innerHTML(dom, n) == Serialize(dom, dom[n].children)

LowerOf(c) ==
  IF \E i \in DOMAIN UpperLetters : UpperLetters[i] = c
  THEN LowerLetters[CHOOSE i \in DOMAIN UpperLetters : UpperLetters[i] = c]
  ELSE c

\* String.prototype.toLowerCase
toLowerCase(s) == [i \in DOMAIN s |-> LowerOf(s[i])]

\* the least position from on at which lit starts in s, or 0
FirstAt(s, lit, from) ==
  LET P == {i \in from..Len(s) : StartsWithAt(s, i, lit)}
  IN IF P = {} THEN 0 ELSE CHOOSE i \in P : \A j \in P : i <= j

\* the length of the longest run of characters of set S in s from position i
RECURSIVE RunOf(_, _, _)
RunOf(s, i, S) ==
  IF i <= Len(s) /\ s[i] \in S THEN 1 + RunOf(s, i + 1, S) ELSE 0

NoMatch == [ok |-> FALSE, at |-> 0, end |-> 0, out |-> <<>>]
Matched(end, out) == [ok |-> TRUE, at |-> 0, end |-> end, out |-> out]

\* <open>([\s\S]*?)<close> at position i, replaced by pre $1 post: the tag
\* has to be written exactly as open, so an element with an attribute is
\* no match
Wrapped(s, i, open, close, pre, post) ==
  IF ~StartsWithAt(s, i, open) THEN NoMatch
  ELSE LET c == FirstAt(s, close, i + Len(open))
       IN IF c = 0 THEN NoMatch
          ELSE Matched(c + Len(close) - 1,
                       pre \o SubSeq(s, i + Len(open), c - 1) \o post)

\* <name[^>]*>([\s\S]*?)<close> at position i, replaced by pre $1 post
Enclosed(s, i, name, close, pre, post) ==
  IF ~StartsWithAt(s, i, <<"<">> \o name) THEN NoMatch
  ELSE LET g == FirstAt(s, <<">">>, i + 1 + Len(name))
           c == IF g = 0 THEN 0 ELSE FirstAt(s, close, g + 1)
       IN IF c = 0 THEN NoMatch
          ELSE Matched(c + Len(close) - 1, pre \o SubSeq(s, g + 1, c - 1) \o post)

\* <a[^>]*href="([^"]*)"[^>]*>([\s\S]*?)<\/a> at position i, replaced by
\* [$2]($1); the greedy [^>]* takes the last href it can
Link(s, i) ==
  IF ~StartsWithAt(s, i, <<"<", "a">>) THEN NoMatch
  ELSE LET parts(k) ==
             LET q == FirstAt(s, Quote, k + Len(HrefIs))
                 g == IF q = 0 THEN 0 ELSE FirstAt(s, <<">">>, q + 1)
                 c == IF g = 0 THEN 0 ELSE FirstAt(s, <<"<", "/", "a", ">">>, g + 1)
             IN [q |-> q, g |-> g, c |-> c]
           K == {k \in (i + 2)..Len(s) :
                   /\ StartsWithAt(s, k, HrefIs)
                   /\ \A j \in (i + 2)..(k - 1) : s[j] # ">"
                   /\ parts(k).c # 0}
       IN IF K = {} THEN NoMatch
          ELSE LET k == CHOOSE x \in K : \A y \in K : y <= x
                   m == parts(k)
               IN Matched(m.c + 3,
                          <<"[">> \o SubSeq(s, m.g + 1, m.c - 1) \o <<"]", "(">>
                            \o SubSeq(s, k + Len(HrefIs), m.q - 1) \o <<")">>)

\* a tag <name[^>]*> at position i, replaced by out
OpenTag(s, i, name, out) ==
  IF ~StartsWithAt(s, i, <<"<">> \o name) THEN NoMatch
  ELSE LET g == FirstAt(s, <<">">>, i + 1 + Len(name))
       IN IF g = 0 THEN NoMatch ELSE Matched(g, out)

Literal(s, i, lit, out) ==
  IF StartsWithAt(s, i, lit) THEN Matched(i + Len(lit) - 1, out) ELSE NoMatch

First(m1, m2) == IF m1.ok THEN m1 ELSE m2

\* "\n" label \s* at position i, the label in any case (flags gi)
LabelLine(s, i, label) ==
  IF i + Len(label) <= Len(s) /\ s[i] = "\n"
       /\ toLowerCase(SubSeq(s, i + 1, i + Len(label))) = label
  THEN Matched(i + Len(label) + RunOf(s, i + 1 + Len(label), Whitespace), Newline)
  ELSE NoMatch

\* the characters a match of a pattern of htmlToMarkdown can begin with
FirstChars(p) ==
  CASE p = "entity" -> {"&"}
    [] p \in {"newlines", "you said", "gemini said"} -> {"\n"}
    [] p = "trailing" -> {" ", "\t"}
    [] OTHER -> {"<"}

\* the match of a pattern of htmlToMarkdown at position i of s, and what
\* replaces it
Match(p, s, i) ==
  CASE p = "bold" ->
         First(Wrapped(s, i, <<"<", "s", "t", "r", "o", "n", "g", ">">>,
                       <<"<", "/", "s", "t", "r", "o", "n", "g", ">">>, Stars, Stars),
               Wrapped(s, i, <<"<", "b", ">">>, <<"<", "/", "b", ">">>, Stars, Stars))
    [] p = "italic" ->
         First(Wrapped(s, i, <<"<", "e", "m", ">">>, <<"<", "/", "e", "m", ">">>, Star, Star),
               Wrapped(s, i, <<"<", "i", ">">>, <<"<", "/", "i", ">">>, Star, Star))
    [] p = "link" -> Link(s, i)
    [] p \in {"h1", "h2", "h3", "h4", "h5", "h6"} ->
         LET level == CHOOSE n \in 1..6 : p = <<"h1", "h2", "h3", "h4", "h5", "h6">>[n]
         IN Enclosed(s, i, TagChars(p), <<"<", "/">> \o TagChars(p) \o <<">">>,
                     Newline \o [k \in 1..level |-> "#"] \o <<" ">>, Newline)
    [] p = "li" ->
         Enclosed(s, i, <<"l", "i">>, <<"<", "/", "l", "i", ">">>, Dash, Newline)
    [] p = "list" ->
         First(First(OpenTag(s, i, <<"u", "l">>, Newline), OpenTag(s, i, <<"o", "l">>, Newline)),
               First(OpenTag(s, i, <<"/", "u", "l">>, Newline),
                     OpenTag(s, i, <<"/", "o", "l">>, Newline)))
    [] p = "br" ->
         IF ~StartsWithAt(s, i, <<"<", "b", "r">>) THEN NoMatch
         ELSE LET a == i + 3 + RunOf(s, i + 3, Whitespace)
                  b == IF a <= Len(s) /\ s[a] = "/" THEN a + 1 ELSE a
              IN IF b <= Len(s) /\ s[b] = ">" THEN Matched(b, Newline) ELSE NoMatch
    [] p = "/p" -> Literal(s, i, <<"<", "/", "p", ">">>, Newline \o Newline)
    [] p = "p" -> OpenTag(s, i, <<"p">>, <<>>)
    [] p = "/div" -> Literal(s, i, <<"<", "/", "d", "i", "v", ">">>, Newline)
    [] p = "div" -> OpenTag(s, i, <<"d", "i", "v">>, <<>>)
    [] p = "span" ->
         First(OpenTag(s, i, <<"s", "p", "a", "n">>, <<>>),
               OpenTag(s, i, <<"/", "s", "p", "a", "n">>, <<>>))
    [] p = "tag" ->
         IF i + 1 <= Len(s) /\ s[i] = "<" /\ s[i + 1] # ">"
         THEN OpenTag(s, i, <<>>, <<>>) ELSE NoMatch
    [] p = "entity" ->
         First(First(Literal(s, i, Amp, <<"&">>), Literal(s, i, Lt, <<"<">>)),
               First(First(Literal(s, i, Gt, <<">">>), Literal(s, i, Quot, Quote)),
                     Literal(s, i, Nbsp, <<"U+00A0">>)))
    [] p = "newlines" ->
         IF RunOf(s, i, {"\n"}) >= 3
         THEN Matched(i + RunOf(s, i, {"\n"}) - 1, Newline \o Newline) ELSE NoMatch
    [] p = "trailing" ->
         LET r == RunOf(s, i, {" ", "\t"})
         IN IF r > 0 /\ (i + r > Len(s) \/ s[i + r] = "\n")
            THEN Matched(i + r - 1, <<>>) ELSE NoMatch
    [] p = "you said" -> LabelLine(s, i, YouSaidLower)
    [] p = "gemini said" -> LabelLine(s, i, GeminiSaidLower)

\* s from position i on, with the matches of p replaced from the left, none
\* overlapping another; at holds the positions where p matches
RECURSIVE ReplaceFrom(_, _, _, _)
ReplaceFrom(p, s, i, at) ==
  LET here == {j \in at : j >= i}
  IN IF here = {} THEN SubSeq(s, i, Len(s))
     ELSE CHOOSE r \in
            {SubSeq(s, i, m.at - 1) \o m.out \o ReplaceFrom(p, s, m.end + 1, at) :
               m \in {LET j == CHOOSE x \in here : \A y \in here : x <= y
                      IN [Match(p, s, j) EXCEPT !.at = j]}} : TRUE

\* String.prototype.replace with the global pattern p
Replace(p, s) ==
  CHOOSE r \in
    {ReplaceFrom(p, s, 1, at) :
       at \in {{j \in 1..Len(s) : s[j] \in FirstChars(p) /\ Match(p, s, j).ok}}} : TRUE

\* the replace calls for the patterns from the k-th on, one after the other
RECURSIVE ReplaceEach(_, _, _)
ReplaceEach(patterns, k, s) ==
  IF k > Len(patterns) THEN s
  ELSE CHOOSE r \in
         {ReplaceEach(patterns, k + 1, t) :
            t \in {Replace(p, s) : p \in {patterns[k]}}} : TRUE

\* /^label\s*/i: at the start of the text only
StripLeadingLabel(s, label) ==
  IF Len(s) >= Len(label) /\ toLowerCase(SubSeq(s, 1, Len(label))) = label
  THEN SubSeq(s, Len(label) + 1 + RunOf(s, Len(label) + 1, Whitespace), Len(s))
  ELSE s

\* the text after the tags are rewritten and the entities decoded.  The
\* user-query/model-response listener reads it from the body of a document
\* parsed from it (lines 930-932), and the parser ignores white space before
\* the first other character; the turn listener reads it from a textarea
\* (lines 368-371), which keeps it
DecodedText(s, variant) == IF variant = "prepend" THEN TrimStart(s) ELSE s

\* htmlToMarkdown on the innerHTML of the element: lines 895-946 (335-389)
HtmlToMarkdown(html, variant) ==
  LET rewritten == {ReplaceEach(<<"bold", "italic", "link",
                                  "h1", "h2", "h3", "h4", "h5", "h6", "li", "list",
                                  "br", "/p", "p", "/div", "div", "span", "tag",
                                  "entity">>, 1, s) :
                       s \in {html}}
      decoded == {DecodedText(s, variant) : s \in rewritten}
      cleaned == {ReplaceEach(<<"newlines", "trailing">>, 1, s) : s \in decoded}
      atStart == {StripLeadingLabel(s, YouSaidLower) : s \in cleaned}
      atStart2 == {StripLeadingLabel(s, GeminiSaidLower) : s \in atStart}
      unlabelled == {ReplaceEach(<<"you said", "gemini said">>, 1, s) : s \in atStart2}
      trimmed == {TrimStart(s) : s \in unlabelled}
  IN CHOOSE r \in {TrimEnd(s) : s \in trimmed} : TRUE

\* extractMessageContent(el) on the tree dom: lines 798-861 (238-301); the
\* result is the content and the tree as the call leaves it
ExtractMessageContent(dom, el, variant) ==
  LET clone == {cloneNode(dom, el)}
      unwanted == {[c EXCEPT !.dom = RemoveUnwanted(c.dom, c.root, unwantedSelectors)] :
                     c \in clone}
      labels == {[c EXCEPT !.dom = RemoveLabelNodes(c.dom,
                                     querySelectorAll(c.dom, c.root,
                                                      [kind |-> "any", arg |-> "*"]))] :
                   c \in unwanted}
      codeBlocks == {[c EXCEPT !.dom = ReplaceCodeBlocks(c.dom,
                                         querySelectorAll(c.dom, c.root,
                                                          [kind |-> "tag", arg |-> "pre"]))] :
                       c \in labels}
      codes == {[c EXCEPT !.dom = ReplaceInlineCode(c.dom,
                                    querySelectorAll(c.dom, c.root,
                                                     [kind |-> "codeNotInPre",
                                                      arg |-> "code:not(pre code)"]))] :
                  c \in codeBlocks}
      html == {[dom |-> c.dom, innerHTML |-> innerHTML(c.dom, c.root)] : c \in codes}
  IN CHOOSE r \in {[dom |-> c.dom, content |-> HtmlToMarkdown(c.innerHTML, variant)] :
                     c \in html} : TRUE

----------------------------------------------------------------------------
(* extractMessageContent as a function of the element *)

LanguagePython ==
  <<"l", "a", "n", "g", "u", "a", "g", "e", "-", "p", "y", "t", "h", "o",
    "n">>
LangPython ==
  <<"l", "a", "n", "g", "-", "p", "y", "t", "h", "o", "n">>
PythonCode ==
  <<"p", "y", "t", "h", "o", "n", "-", "c", "o", "d", "e">>
Python ==
  <<"p", "y", "t", "h", "o", "n">>
BoldText ==
  <<"B">>
CodeText ==
  <<"x", "<", "1">>
ItemP ==
  <<"p">>
ItemQ ==
  <<"q">>
LinkUrl ==
  <<"h", "t", "t", "p", ":", "/", "/", "e", ".", "x", "/">>
LinkText ==
  <<"t">>
CopyText ==
  <<"C", "o", "p", "y">>
InlineText ==
  <<"c">>
SomeClass ==
  <<"x">>

\* how a code block says that it is python: lines 873-881
Taggings == {"language-", "lang-", "-code", "data-language"}

\* a message element holding, in this order, a bold run, a code block tagged
\* python, a list of two items and a link; before them a label and after them
\* a copy button and inline code, if present
MessageTree(boldTag, boldClass, tagging, listTag, label, button, inline) ==
  <<Element("div", <<>>,
            (IF label THEN <<14>> ELSE <<>>) \o <<2, 4, 7, 12>>
              \o (IF button THEN <<16>> ELSE <<>>)
              \o (IF inline THEN <<18>> ELSE <<>>)),
    Element(boldTag, boldClass, <<3>>), TextNode(BoldText),
    Element("pre", IF tagging = "lang-" THEN LangPython ELSE <<>>, <<5>>),
    [Element("code",
             CASE tagging = "language-" -> LanguagePython
               [] tagging = "-code" -> PythonCode
               [] OTHER -> <<>>,
             <<6>>) EXCEPT !.lang = IF tagging = "data-language" THEN Python ELSE <<>>],
    TextNode(CodeText),
    Element(listTag, <<>>, <<8, 10>>),
    Element("li", <<>>, <<9>>), TextNode(ItemP),
    Element("li", <<>>, <<11>>), TextNode(ItemQ),
    [Element("a", <<>>, <<13>>) EXCEPT !.href = LinkUrl], TextNode(LinkText),
    Element("span", <<>>, <<15>>), TextNode(GeminiSaid),
    Element("button", <<>>, <<17>>), TextNode(CopyText),
    Element("code", <<>>, <<19>>), TextNode(InlineText)>>

MessageTrees ==
  {MessageTree(boldTag, boldClass, tagging, listTag, label, button, inline) :
     boldTag \in {"b", "strong"}, boldClass \in {<<>>, SomeClass},
     tagging \in Taggings, listTag \in {"ul", "ol"},
     label \in BOOLEAN, button \in BOOLEAN, inline \in BOOLEAN}

InitNormalize ==
  /\ Bare
  /\ \E tree \in MessageTrees :
       call = [fn |-> "extractMessageContent", dom |-> tree, el |-> 1,
               variant |-> "prepend",
               before |-> tree, returned |-> FALSE, content |-> <<>>]

CallExtractMessageContent ==
  /\ call.fn = "extractMessageContent" /\ ~call.returned
  /\ \E r \in {ExtractMessageContent(call.dom, call.el, call.variant)} :
       call' = [call EXCEPT !.dom = r.dom, !.content = r.content, !.returned = TRUE]
  /\ UNCHANGED <<viewVars, runVars, dedupVars, popupVars>>

NextNormalize == CallExtractMessageContent

SpecNormalize == InitNormalize /\ [][NextNormalize]_vars

----------------------------------------------------------------------------
(* generateFilename as a function of the title: src/src/popup.js *)

IsoNow ==
  <<"2", "0", "2", "6", "-", "1", "1", "-", "0", "4", "T", "0", "3", ":",
    "0", "7", ":", "2", "7", ".", "0", "0", "0", "Z">>
GeminiDash ==
  <<"g", "e", "m", "i", "n", "i", "-">>
DotMd ==
  <<".", "m", "d">>
UpperTitle ==
  <<"M", "y", " ", "C", "h", "a", "t">>
Symbols ==
  <<"!", "?">>

\* the characters [a-z0-9] of line 53
SafeChars == Range(LowerLetters) \cup Range(DigitChars)

\* s.split(sep)[0]: s up to the first sep
SplitFirst(s, sep) ==
  LET at == FirstAt(s, sep, 1)
  IN IF at = 0 THEN s ELSE SubSeq(s, 1, at - 1)

\* s.replace(/[^a-z0-9]+/g, '-'): every longest run of other characters
\* becomes one '-'
RECURSIVE ReplaceUnsafeRuns(_)
ReplaceUnsafeRuns(s) ==
  IF s = <<>> THEN <<>>
  ELSE IF Head(s) \in SafeChars THEN <<Head(s)>> \o ReplaceUnsafeRuns(Tail(s))
  ELSE LET safe == {i \in 1..Len(s) : s[i] \in SafeChars}
           next == IF safe = {} THEN Len(s) + 1
                   ELSE CHOOSE i \in safe : \A j \in safe : i <= j
       IN <<"-">> \o ReplaceUnsafeRuns(SubSeq(s, next, Len(s)))

\* s.replace(/^-|-$/g, ''): a '-' at the start and a '-' at the end
TrimDashes(s) ==
  LET t == IF s # <<>> /\ Head(s) = "-" THEN Tail(s) ELSE s
  IN IF t # <<>> /\ t[Len(t)] = "-" THEN SubSeq(t, 1, Len(t) - 1) ELSE t

\* .substring(0, 50) of line 55
TitleCap == 50

\* lines 51-55, in the order of the calls
SafeTitle(title) ==
  Substring0(TrimDashes(ReplaceUnsafeRuns(toLowerCase(title))), TitleCap)

\* generateFilename(title) at the instant now: lines 49-58
generateFilename(title, now) ==
  LET date == SplitFirst(now, <<"T">>)
      safeTitle == SafeTitle(title)
  IN GeminiDash \o safeTitle \o <<"-">> \o date \o DotMd

\* titles: a run of letters of a length around the cap, with or without other
\* characters before it and after it, and upper-case letters
Titles ==
  {lead \o Rep("a", n) \o sep \o tail :
     lead \in {<<>>, <<" ">>, <<"-", "_">>},
     n \in {0, 1, TitleCap - 2, TitleCap - 1, TitleCap, TitleCap + 1},
     sep \in {<<>>, <<" ">>, <<"-">>, Symbols},
     tail \in {<<>>, <<"b", "9">>, UpperTitle, <<"z", ".">>}}

InitFilename ==
  /\ Bare
  /\ \E title \in Titles :
       call = [fn |-> "generateFilename", title |-> title, returned |-> FALSE,
               filename |-> <<>>]

CallGenerateFilename ==
  /\ call.fn = "generateFilename" /\ ~call.returned
  /\ call' = [call EXCEPT !.filename = generateFilename(call.title, IsoNow),
                          !.returned = TRUE]
  /\ UNCHANGED <<viewVars, runVars, dedupVars, popupVars>>

NextFilename == CallGenerateFilename

SpecFilename == InitFilename /\ [][NextFilename]_vars

----------------------------------------------------------------------------
(* getChatTitle as a function of the document *)

GeminiLower ==
  <<"g", "e", "m", "i", "n", "i">>
GeminiPadded ==
  <<" ", "G", "e", "m", "i", "n", "i", "\n">>
GeminiAdvanced ==
  <<"G", "e", "m", "i", "n", "i", " ", "A", "d", "v", "a", "n", "c", "e",
    "d">>
MyChat ==
  <<"M", "y", " ", "C", "h", "a", "t">>
Blank ==
  <<" ", " ">>
GoogleGemini ==
  <<"G", "o", "o", "g", "l", "e", " ", "G", "e", "m", "i", "n", "i">>
Notes ==
  <<"N", "o", "t", "e", "s">>

\* lines 955-960 (396-401), in the order they are tried
titleSelectors ==
  <<"[class*=\"conversation-title\"]", "[class*=\"chat-title\"]", ".title", "h1">>

\* el.textContent.trim().length < 200: line 964 (405)
TitleLimit == 200
\* text.length > 10: line 408, the turn listener only
GenericLimit == 10

\* a document, as far as getChatTitle reads it: for each selector the text of
\* the first element that matches it, if any, and document.title
NoElement == [present |-> FALSE, text |-> <<>>]
ElementWith(text) == [present |-> TRUE, text |-> text]

\* document.querySelector(titleSelectors[k])
querySelector(doc, k) == doc.found[k]

\* no candidate is generic (a mutant)
NotGenericAny(text, variant) == TRUE

\* the test "skip generic titles" of a candidate: line 967, and line 408
NotGeneric(text, variant) ==
  \/ ~Includes(toLowerCase(text), GeminiLower)
  \/ variant = "turn" /\ Len(text) > GenericLimit

\* the loop of lines 962-971 (403-412) from selector k on, then lines 974-979
\* (415-420)
RECURSIVE TitleFrom(_, _, _)
TitleFrom(doc, k, variant) ==
  IF k > Len(titleSelectors)
  THEN LET pageTitle == doc.title
       IN IF pageTitle # <<>> /\ ~Includes(toLowerCase(pageTitle), GeminiLower)
          THEN pageTitle
          ELSE DefaultTitle
  ELSE LET el == querySelector(doc, k)
           text == Trim(el.text)
       IN IF el.present /\ text # <<>> /\ Len(text) < TitleLimit
               /\ NotGeneric(text, variant)
          THEN text
          ELSE TitleFrom(doc, k + 1, variant)

getChatTitle(doc, variant) == TitleFrom(doc, 1, variant)

Candidates ==
  {NoElement} \cup {ElementWith(text) :
                      text \in {Gemini, GeminiPadded, GeminiAdvanced, MyChat, Blank,
                                Rep("x", TitleLimit)}}

Documents ==
  [found : [1..Len(titleSelectors) -> Candidates],
   title : {<<>>, Gemini, GoogleGemini, Notes}]

InitTitle ==
  /\ Bare
  /\ \E doc \in Documents, variant \in {"turn", "prepend"} :
       call = [fn |-> "getChatTitle", doc |-> doc, variant |-> variant,
               returned |-> FALSE, title |-> <<>>]

CallGetChatTitle ==
  /\ call.fn = "getChatTitle" /\ ~call.returned
  /\ call' = [call EXCEPT !.title = getChatTitle(call.doc, call.variant),
                          !.returned = TRUE]
  /\ UNCHANGED <<viewVars, runVars, dedupVars, popupVars>>

NextTitle == CallGetChatTitle

SpecTitle == InitTitle /\ [][NextTitle]_vars

----------------------------------------------------------------------------
(* determineMessageRole as a function of the element *)

User ==
  <<"u", "s", "e", "r">>
Query ==
  <<"q", "u", "e", "r", "y">>
Human ==
  <<"h", "u", "m", "a", "n">>
Prompt ==
  <<"p", "r", "o", "m", "p", "t">>
Assistant ==
  <<"a", "s", "s", "i", "s", "t", "a", "n", "t">>
Model ==
  <<"m", "o", "d", "e", "l">>

\* an element as determineMessageRole reads it: its className and its
\* data-message-author-role attribute, if it has one
RoleElement(className, hasRole, role) ==
  [className |-> className, hasRole |-> hasRole, role |-> role]

\* getAttribute returns null without the attribute, and null === 'user' is false
DataRoleIs(el, value) == el.hasRole /\ el.role = value

\* lines 218-231
determineMessageRole(el) ==
  LET classNames == toLowerCase(el.className)
  IN IF \/ DataRoleIs(el, User)
        \/ Includes(classNames, User)
        \/ Includes(classNames, Query)
        \/ Includes(classNames, Human)
        \/ Includes(classNames, Prompt)
     THEN "user"
     ELSE "assistant"

\* class names: a word of the user vocabulary, or another word, in lower or
\* upper case, alone or inside a longer name; and no class at all
ClassWords ==
  {User, Query, Human, Prompt, Assistant, Model, <<"U", "S", "E", "R">>, <<"Q", "u", "e", "r", "y">>, <<"r", "e", "s", "p", "o", "n", "s", "e">>, <<>>}
ClassNames ==
  {pre \o w \o post : pre \in {<<>>, <<"m", "s", "g", "-">>}, w \in ClassWords, post \in {<<>>, <<"-", "t", "e", "x", "t">>}}
RoleElements ==
  {RoleElement(c, FALSE, <<>>) : c \in ClassNames}
    \cup {RoleElement(c, TRUE, role) :
            c \in ClassNames, role \in {User, Assistant, Model, <<"U", "s", "e", "r">>, <<>>}}

InitRole ==
  /\ Bare
  /\ \E el \in RoleElements :
       call = [fn |-> "determineMessageRole", el |-> el, returned |-> FALSE,
               role |-> ""]

CallDetermineMessageRole ==
  /\ call.fn = "determineMessageRole" /\ ~call.returned
  /\ call' = [call EXCEPT !.role = determineMessageRole(call.el), !.returned = TRUE]
  /\ UNCHANGED <<viewVars, runVars, dedupVars, popupVars>>

NextRole == CallDetermineMessageRole

SpecRole == InitRole /\ [][NextRole]_vars

----------------------------------------------------------------------------
(* formatTimestamp as a function of the value *)

IsDigit(c) == \E n \in 0..9 : DigitChars[n + 1] = c
DigitValue(c) == CHOOSE n \in 0..9 : DigitChars[n + 1] = c

\* the value of a short run of digits
RECURSIVE NatOf(_)
NatOf(digits) ==
  IF digits = <<>> THEN 0
  ELSE 10 * NatOf(SubSeq(digits, 1, Len(digits) - 1)) + DigitValue(digits[Len(digits)])

\* a number too large for the integers of the model is its decimal digits
\* without leading zeros
RECURSIVE StripZeros(_)
StripZeros(digits) ==
  IF Len(digits) > 1 /\ Head(digits) = "0" THEN StripZeros(Tail(digits)) ELSE digits

\* a <= b for digit sequences without leading zeros
RECURSIVE DigitsLeq(_, _)
DigitsLeq(a, b) ==
  IF Len(a) # Len(b) THEN Len(a) < Len(b)
  ELSE IF a = <<>> THEN TRUE
  ELSE IF Head(a) # Head(b) THEN DigitValue(Head(a)) < DigitValue(Head(b))
  ELSE DigitsLeq(Tail(a), Tail(b))

NotANumber == [nan |-> TRUE, neg |-> FALSE, digits |-> <<>>]
Number(neg, digits) ==
  [nan |-> FALSE, neg |-> neg /\ StripZeros(digits) # <<"0">>,
   digits |-> StripZeros(digits)]

\* parseInt(value, 10): leading white space, a sign, then the digits up to
\* the first character that is not one; NaN without a digit
parseInt(value) ==
  LET trimmed == TrimStart(value)
      signed == trimmed # <<>> /\ Head(trimmed) \in {"-", "+"}
      body == IF signed THEN Tail(trimmed) ELSE trimmed
      n == RunOf(body, 1, Range(DigitChars))
  IN IF n = 0 THEN NotANumber
     ELSE Number(signed /\ Head(trimmed) = "-", SubSeq(body, 1, n))

TenDigits == 10
\* 9999999999
MaxSeconds == Rep("9", TenDigits)
\* 8640000000000000, the largest time value of a Date
MaxTime ==
  <<"8", "6", "4", "0", "0", "0", "0", "0", "0", "0", "0", "0", "0", "0", "0", "0">>

InvalidDate == [valid |-> FALSE, neg |-> FALSE, ms |-> <<>>]
\* new Date(number): valid within the range of time values
DateOfNumber(num) ==
  IF DigitsLeq(num.digits, MaxTime)
  THEN [valid |-> TRUE, neg |-> num.neg, ms |-> num.digits]
  ELSE InvalidDate

\* num * 1000
Times1000(num) ==
  IF num.digits = <<"0">> THEN num ELSE [num EXCEPT !.digits = @ \o <<"0", "0", "0">>]

\* days from 1970-01-01 to the given day of the proleptic Gregorian calendar
DaysFromCivil(year, month, day) ==
  LET y == IF month <= 2 THEN year - 1 ELSE year
      era == y \div 400
      yoe == y - era * 400
      mp == (month + 9) % 12
      doy == (153 * mp + 2) \div 5 + day - 1
      doe == yoe * 365 + yoe \div 4 - yoe \div 100 + doy
  IN era * 146097 + doe - 719468

DaysIn(year, month) ==
  IF month = 2
  THEN IF (year % 4 = 0 /\ year % 100 # 0) \/ year % 400 = 0 THEN 29 ELSE 28
  ELSE IF month \in {4, 6, 9, 11} THEN 30 ELSE 31

\* the characters of s at the given positions are digits
DigitsAt(s, positions) == \A i \in positions : i <= Len(s) /\ IsDigit(s[i])

\* new Date(string), for the date-time string format of the language:
\* YYYY-MM-DD (UTC) and YYYY-MM-DDTHH:mm:ssZ; other strings, which the
\* language leaves to the implementation, are outside the model's inputs and
\* give an invalid Date here
DateOfString(s) ==
  LET dateOnly == Len(s) = 10
      dateTime == /\ Len(s) = 20 /\ s[11] = "T" /\ s[14] = ":" /\ s[17] = ":"
                  /\ s[20] = "Z" /\ DigitsAt(s, {12, 13, 15, 16, 18, 19})
      shaped == /\ dateOnly \/ dateTime
                /\ DigitsAt(s, {1, 2, 3, 4, 6, 7, 9, 10}) /\ s[5] = "-" /\ s[8] = "-"
      year == NatOf(SubSeq(s, 1, 4))
      month == NatOf(SubSeq(s, 6, 7))
      day == NatOf(SubSeq(s, 9, 10))
      hours == IF dateTime THEN NatOf(SubSeq(s, 12, 13)) ELSE 0
      minutes == IF dateTime THEN NatOf(SubSeq(s, 15, 16)) ELSE 0
      seconds == IF dateTime THEN NatOf(SubSeq(s, 18, 19)) ELSE 0
  IN IF /\ shaped
        /\ year >= 1970 /\ month \in 1..12 /\ day \in 1..DaysIn(year, month)
        /\ hours <= 23 /\ minutes <= 59 /\ seconds <= 59
     THEN DateOfNumber(Times1000(Number(FALSE,
            NumberToString(DaysFromCivil(year, month, day) * 86400
                             + hours * 3600 + minutes * 60 + seconds))))
     ELSE InvalidDate

\* date.toLocaleString(): the text depends on the locale and the time zone of
\* the browser; it is kept as the time value it renders
toLocaleString(date) == [formatted |-> TRUE, neg |-> date.neg, ms |-> date.ms, text |-> <<>>]
AsIs(value) == [formatted |-> FALSE, neg |-> FALSE, ms |-> <<>>, text |-> value]

\* lines 60-78
formatTimestamp(value) ==
  LET num == parseInt(value)
      tooLarge == ~num.neg /\ ~DigitsLeq(num.digits, MaxSeconds)
      date == DateOfNumber(IF tooLarge THEN num ELSE Times1000(num))
      date2 == DateOfString(value)
  IN IF ~num.nan /\ date.valid THEN toLocaleString(date)
     ELSE IF date2.valid THEN toLocaleString(date2)
     ELSE AsIs(value)

\* attribute values: Unix times in seconds and in milliseconds, date-time
\* strings, and texts that are neither
UnixTimes ==
  {<<"0">>, <<"5">>, <<"1", "7", "0", "0", "0", "0", "0", "0", "0", "0">>, <<"9", "9", "9", "9", "9", "9", "9", "9", "9", "9">>, <<"1", "0", "0", "0", "0", "0", "0", "0", "0", "0", "0">>, <<"1", "7", "0", "0", "0", "0", "0", "0", "0", "0", "0", "0", "0">>, <<"-", "5">>, <<" ", "4", "2">>, <<"0", "0", "0", "1", "7", "0", "0", "0", "0", "0", "0", "0", "0">>}
Years == {<<"1", "9", "9", "9">>, <<"2", "0", "2", "4">>, <<"2", "0", "2", "6">>}
MonthDays == {<<"-", "0", "1", "-", "0", "1">>, <<"-", "0", "2", "-", "2", "8">>, <<"-", "0", "6", "-", "3", "0">>, <<"-", "1", "1", "-", "0", "4">>, <<"-", "1", "2", "-", "3", "1">>}
TimesOfDay == {<<>>, <<"T", "0", "0", ":", "0", "0", ":", "0", "0", "Z">>, <<"T", "1", "0", ":", "3", "0", ":", "5", "9", "Z">>}
DateStrings == {y \o md \o t : y \in Years, md \in MonthDays, t \in TimesOfDay}
OtherTexts ==
  {<<"y", "e", "s", "t", "e", "r", "d", "a", "y">>, <<"j", "u", "s", "t", " ", "n", "o", "w">>, <<"1", "0", ":", "3", "0", " ", "A", "M">>, <<"1", "2", " ", "m", "i", "n", "u", "t", "e", "s", " ", "a", "g", "o">>, <<"n", "/", "a">>}
TimestampValues == UnixTimes \cup DateStrings \cup OtherTexts

InitTimestamp ==
  /\ Bare
  /\ \E value \in TimestampValues :
       call = [fn |-> "formatTimestamp", value |-> value, returned |-> FALSE,
               result |-> AsIs(<<>>)]

CallFormatTimestamp ==
  /\ call.fn = "formatTimestamp" /\ ~call.returned
  /\ call' = [call EXCEPT !.result = formatTimestamp(call.value), !.returned = TRUE]
  /\ UNCHANGED <<viewVars, runVars, dedupVars, popupVars>>

NextTimestamp == CallFormatTimestamp

SpecTimestamp == InitTimestamp /\ [][NextTimestamp]_vars

----------------------------------------------------------------------------
(* extractMessageContent on paragraphs, code blocks and label-like text *)

\* a child of the message element: an element with one text, a text node, or
\* a line break; it takes two places of the tree (the second is its text, or
\* is not part of the tree)
Child(tag, text) == [tag |-> tag, text |-> text]
ChildNodes(k, id) ==
  IF k.tag = "#text" THEN <<TextNode(k.text), TextNode(<<>>)>>
  ELSE IF k.tag = "br" THEN <<Element("br", <<>>, <<>>), TextNode(<<>>)>>
  ELSE <<Element(k.tag, <<>>, <<id + 1>>), TextNode(k.text)>>

\* a message element with the children ks
RECURSIVE ChildrenFrom(_, _)
ChildrenFrom(ks, id) ==
  IF ks = <<>> THEN <<>> ELSE ChildNodes(Head(ks), id) \o ChildrenFrom(Tail(ks), id + 2)
TreeOf(ks) ==
  <<Element("div", <<>>, [i \in DOMAIN ks |-> 2 * i])>> \o ChildrenFrom(ks, 2)

\* paragraphs, texts and line breaks, with the white space markup puts
\* between and inside them
ParagraphChildren ==
  {Child("p", A), Child("p", <<" ">>), Child("#text", A), Child("#text", <<" ">>),
   Child("#text", <<"\n">>), Child("#text", <<"a", " ">>), Child("br", <<>>)}
ParagraphTrees ==
  {TreeOf(<<k1, k2, k3>>) :
     k1 \in ParagraphChildren, k2 \in ParagraphChildren, k3 \in ParagraphChildren}

Hello ==
  <<"H", "e", "l", "l", "o">>
\* code with a blank line, with two, with trailing blanks, with characters
\* that markup escapes, and with lines that begin like a role label
CodeTexts ==
  {<<"x", "=", "1">>,
   <<"x", "\n", "\n", "y">>,
   <<"x", "\n", "\n", "\n", "y">>,
   <<"x", " ", " ", "\n", "y">>,
   <<"x", "\t", "\n", "y">>,
   <<"i", "f", " ", "a", "<", "b", ":", "\n", " ", " ", "y">>,
   <<"a", "&", "b">>,
   <<"x", "\n", "Y", "o", "u", " ", "s", "a", "i", "d", " ", "y">>,
   <<"x", "\n", "g", "e", "m", "i", "n", "i", " ", "s", "a", "i", "d", "\n", "y">>}
\* a message element holding a code block, after a paragraph or alone, its
\* code element tagged python or not
CodeTree(text, tagged, after) ==
  LET at == IF after THEN 4 ELSE 2
  IN <<Element("div", <<>>, IF after THEN <<2, 4>> ELSE <<2>>)>>
       \o (IF after THEN <<Element("p", <<>>, <<3>>), TextNode(Hello)>> ELSE <<>>)
       \o <<Element("pre", <<>>, <<at + 1>>),
            Element("code", IF tagged THEN LanguagePython ELSE <<>>, <<at + 2>>),
            TextNode(text)>>
CodeTrees ==
  {CodeTree(text, tagged, after) :
     text \in CodeTexts, tagged \in BOOLEAN, after \in BOOLEAN}

\* a reply that is one word, and sentences that begin with the words of a
\* role label or do not
WholeBodies == {You, Gemini}
Sentences ==
  {<<"Y", "o", "u", " ", "s", "a", "i", "d", " ", "i", "t", " ", "w", "o", "u", "l", "d", " ", "r", "a", "i", "n">>,
   <<"G", "e", "m", "i", "n", "i", " ", "s", "a", "i", "d", " ", "n", "o">>,
   <<"y", "o", "u", " ", "s", "a", "i", "d", " ", "s", "o">>,
   <<"Y", "e", "s">>,
   <<"Y", "o", "u", "r", " ", "t", "u", "r", "n">>}
\* a message element whose text is held in one leaf element, alone or after
\* a paragraph
LabelTree(tag, text, after) ==
  TreeOf((IF after THEN <<Child("p", Hello)>> ELSE <<>>) \o <<Child(tag, text)>>)
LabelTrees ==
  {LabelTree(tag, text, FALSE) : tag \in {"p", "span", "div"}, text \in WholeBodies}
    \cup {LabelTree(tag, text, after) :
            tag \in {"p", "div"}, text \in Sentences, after \in BOOLEAN}

ContentInput(family, tree, variant) ==
  [fn |-> "extractMessageContent", family |-> family, dom |-> tree, el |-> 1,
   variant |-> variant, before |-> tree, returned |-> FALSE, content |-> <<>>]

InitContent ==
  /\ Bare
  /\ \E variant \in Variants :
       \/ \E tree \in ParagraphTrees : call = ContentInput("paragraphs", tree, variant)
       \/ \E tree \in CodeTrees : call = ContentInput("code", tree, variant)
       \/ \E tree \in LabelTrees : call = ContentInput("label", tree, variant)

SpecContent == InitContent /\ [][NextNormalize]_vars

----------------------------------------------------------------------------
(* extractFromMainContent as a function of the document *)

Response ==
  <<"r", "e", "s", "p", "o", "n", "s", "e">>

\* A document for the fallback locator: its elements in document order, each
\* with its parent (0 for the outermost), its class attribute, its
\* data-message-author-role attribute if it has one, and the text of its own
\* text node, which comes before its child elements.
FallbackNode(parent, cls, hasRole, role, text) ==
  [parent |-> parent, cls |-> cls, hasRole |-> hasRole, role |-> role, text |-> text]

RECURSIVE AncestorsOf(_, _)
AncestorsOf(doc, n) ==
  IF doc[n].parent = 0 THEN {}
  ELSE {doc[n].parent} \cup AncestorsOf(doc, doc[n].parent)

\* the elements below the container, in document order
Inside(doc, container) ==
  SelectSeq([i \in DOMAIN doc |-> i], LAMBDA n : container \in AncestorsOf(doc, n))

\* [class*="word"]
ClassHas(doc, n, word) == Includes(doc[n].cls, word)

\* [class*="word"]:not([class*="word"] [class*="word"]): the descendant
\* combinator looks at every ancestor the element has in the document
ClassHasOutermost(doc, n, word) ==
  /\ ClassHas(doc, n, word)
  /\ \A a \in AncestorsOf(doc, n) : ~ClassHas(doc, a, word)

\* lines 144-148
SelectorCandidates(doc, container) ==
  SelectSeq(Inside(doc, container),
            LAMBDA n : \/ doc[n].hasRole
                       \/ ClassHasOutermost(doc, n, Query)
                       \/ ClassHasOutermost(doc, n, Response))

\* line 156: parent.matches(...)
MatchesPatterns(doc, n) ==
  doc[n].hasRole \/ ClassHas(doc, n, Query) \/ ClassHas(doc, n, Response)

\* lines 153-161, from the element parent upwards
RECURSIVE isNested(_, _, _)
isNested(doc, parent, container) ==
  IF parent = 0 \/ parent = container THEN FALSE
  ELSE IF MatchesPatterns(doc, parent) THEN TRUE
  ELSE isNested(doc, doc[parent].parent, container)

\* lines 150-166
potentialMessages(doc, container) ==
  SelectSeq(SelectorCandidates(doc, container),
            LAMBDA el : ~isNested(doc, doc[el].parent, container))

\* the text of an element with the text of the elements below it
RECURSIVE TextUnder(_, _, _)
TextUnder(doc, n, i) ==
  IF i > Len(doc) THEN <<>>
  ELSE (IF i = n \/ n \in AncestorsOf(doc, i) THEN doc[i].text ELSE <<>>)
         \o TextUnder(doc, n, i + 1)

\* lines 170-179
RECURSIVE PushEach(_, _, _, _)
PushEach(doc, els, seen, messages) ==
  IF els = <<>> THEN [seen |-> seen, messages |-> messages]
  ELSE LET el == Head(els)
           role == determineMessageRole(RoleElement(doc[el].cls, doc[el].hasRole, doc[el].role))
           content == TextUnder(doc, el, 1)
           hash == hashContent(content)
       IN IF Trim(content) # <<>> /\ hash \notin seen
          THEN PushEach(doc, Tail(els), seen \cup {hash},
                        Append(messages, [role |-> role, content |-> Trim(content)]))
          ELSE PushEach(doc, Tail(els), seen, messages)

\* lines 140-180
extractFromMainContent(doc, container, seen) ==
  LET found == potentialMessages(doc, container)
      r == PushEach(doc, found, seen, <<>>)
  IN [potentialMessages |-> found, seen |-> r.seen, messages |-> r.messages]

\* The documents: an outer element 1, the container main 2 inside it, and
\* three elements 3, 4, 5 inside the container, in every shape a tree of three
\* has.
ElementKinds ==
  {[cls |-> <<>>, hasRole |-> FALSE, role |-> <<>>],
   [cls |-> Query, hasRole |-> FALSE, role |-> <<>>],
   [cls |-> Response, hasRole |-> FALSE, role |-> <<>>],
   [cls |-> <<>>, hasRole |-> TRUE, role |-> User],
   [cls |-> <<>>, hasRole |-> TRUE, role |-> Model],
   [cls |-> Response, hasRole |-> TRUE, role |-> User]}

OuterClasses ==
  {<<>>, Query, <<"r", "e", "s", "p", "o", "n", "s", "e", "-", "a", "r", "e", "a">>}

\* the parents of the three elements, written in document order: an element
\* is a child of the element before it or of one of that element's ancestors
Shapes ==
  {<<2, p4, p5>> : p4 \in {2, 3}, p5 \in {2, 3, 4}}
    \ {<<2, 2, 3>>}

Texts == <<A, B, A>>

FallbackDocuments ==
  {<<FallbackNode(0, outer, FALSE, <<>>, <<>>),
     FallbackNode(1, main, FALSE, <<>>, <<>>),
     FallbackNode(sh[1], k3.cls, k3.hasRole, k3.role, Texts[1]),
     FallbackNode(sh[2], k4.cls, k4.hasRole, k4.role, Texts[2]),
     FallbackNode(sh[3], k5.cls, k5.hasRole, k5.role, Texts[3])>> :
     outer \in OuterClasses, main \in OuterClasses, sh \in Shapes,
     k3 \in ElementKinds, k4 \in ElementKinds, k5 \in ElementKinds}

InitFallback ==
  /\ Bare
  /\ \E doc \in FallbackDocuments, seen \in {{}, {hashContent(B)}} :
       call = [fn |-> "extractFromMainContent", doc |-> doc, container |-> 2,
               seenContent |-> seen, returned |-> FALSE,
               potentialMessages |-> <<>>, messages |-> <<>>]

CallExtractFromMainContent ==
  /\ call.fn = "extractFromMainContent" /\ ~call.returned
  /\ \E r \in {extractFromMainContent(call.doc, call.container, call.seenContent)} :
       call' = [call EXCEPT !.potentialMessages = r.potentialMessages,
                            !.seenContent = r.seen,
                            !.messages = r.messages,
                            !.returned = TRUE]
  /\ UNCHANGED <<viewVars, runVars, dedupVars, popupVars>>

NextFallback == CallExtractFromMainContent

SpecFallback == InitFallback /\ [][NextFallback]_vars

----------------------------------------------------------------------------
(* One advance of the loader, for the viewport heights a window can have *)

\* viewport heights from a small panel to a tall window, among them heights
\* whose product with 0.7 is rounded below a whole number (90, 650, 700)
ViewportHeights == {90} \cup {100 + 50 * k : k \in 0..28}

\* where the advance starts: at the top, near it, and far from it
StartTops == {0, 200, 3000}

InitStep ==
  /\ conv = <<>> /\ visible = {}
  /\ clientHeight \in ViewportHeights /\ scrollHeight = 5000
  /\ scrollTop \in StartTops
  /\ viewChanges = 0
  /\ pending = 0
  /\ run = [r \in Reqs |-> Idle]
  /\ DedupOff
  /\ tab = NoTab /\ popup = PopupClosed
  /\ \E v \in Variants :
       call = [fn |-> "advance", variant |-> v, returned |-> FALSE,
               scrollStep |-> 0, previousScrollTop |-> 0]

\* lines 1232 and 1243-1244, lines 635 and 646-647: the step is computed, the
\* position is kept, and scrollBy(-scrollStep) moves the view
AdvanceOnce ==
  /\ call.fn = "advance" /\ ~call.returned
  /\ \E step \in {ScrollStepOf(call.variant, clientHeight)} :
       /\ call' = [call EXCEPT !.scrollStep = step,
                               !.previousScrollTop = scrollTop,
                               !.returned = TRUE]
       /\ scrollTop' = Clamp(scrollTop - step, scrollHeight)
  /\ UNCHANGED <<conv, visible, scrollHeight, clientHeight, viewChanges, pending,
                 run, dedupVars, popupVars>>

NextStep == AdvanceOnce

SpecStep == InitStep /\ [][NextStep]_vars

----------------------------------------------------------------------------
(* The background script on its own *)

\* the background script on its own: 'download' messages arrive, and a timer
\* that is set runs
InitBackground == Bare /\ call = Background

PostDownload ==
  /\ call.fn = "background" /\ Len(call.downloads) < MaxDownloads
  /\ call' = Post(call)
  /\ UNCHANGED popup /\ BackgroundFrame

NextBackground ==
  \/ PostDownload
  \/ \E i \in 1..MaxDownloads : BackgroundStep(i)

SpecBackground ==
  /\ InitBackground /\ [][NextBackground]_vars
  /\ \A i \in 1..MaxDownloads : WF_vars(TimerFires(i))

----------------------------------------------------------------------------
(* Properties *)

Answered(l) == l.sent > 0
Fingerprints(msgs) == {hashContent(msgs[i].content) : i \in DOMAIN msgs}
\* the fingerprints of the contents a run has observed
ObservedFingerprints(l) ==
  {hashContent(extractMessageContent(conv[i])) : i \in l.observed}

\* C1: every response is a success with messageCount >= 1 or a failure with
\* a non-empty error message; a run whose traversal completed with an empty
\* accumulator answers with the 'No chat messages found' failure
C1_NeverEmptySuccess ==
  \A r \in Reqs :
    Answered(run[r]) =>
      /\ IF run[r].response.success
         THEN run[r].response.messageCount >= 1
         ELSE run[r].response.error # ""
      /\ (~run[r].faulted /\ run[r].messages = <<>>) =>
           (~run[r].response.success /\ run[r].response.error = NoContentError)

\* C1: a traversal that met elements without extractable text ended in the
\* 'No chat messages found' failure
C1_Witness ==
  \E r \in Reqs :
    /\ run[r].pc = "done" /\ run[r].response.error = NoContentError
    /\ run[r].advances >= 1 /\ visible # {}

\* C2: no two entries of the accumulated messages array share a fingerprint,
\* after every extraction pass of either listener
C2_NoSharedFingerprint ==
  \A r \in Reqs :
    \A i, j \in DOMAIN run[r].messages :
      i # j => hashContent(run[r].messages[i].content)
                 # hashContent(run[r].messages[j].content)

\* C2: during the scroll loop a pass met an already seen fingerprint while
\* the accumulator held two messages
C2_Witness ==
  \E r \in Reqs :
    /\ run[r].reReported /\ Len(run[r].messages) >= 2
    /\ Cardinality(run[r].observed) > Len(run[r].messages)
    /\ run[r].advances >= 1

\* the sequence lists elements of the conversation the run observed, each
\* later in the conversation than the one before it
RECURSIVE InConversationOrder(_, _, _)
InConversationOrder(list, obs, from) ==
  IF list = <<>> THEN TRUE
  ELSE \E i \in obs :
         /\ i > from
         /\ Head(list) = [role |-> RoleOf(conv[i]),
                          content |-> Trim(extractMessageContent(conv[i]))]
         /\ InConversationOrder(Tail(list), obs, i)

\* C3: in the prepend variant the sequence handed to formatAsMarkdown lists
\* the observed messages in conversation order, oldest first, whatever the
\* batches were
C3_OldestFirst ==
  \A r \in Reqs :
    (run[r].variant = "prepend" /\ run[r].response.success) =>
      InConversationOrder(run[r].response.list, run[r].observed, 0)

\* the steps a run can still take: the stabilization polls and advances left
\* in the scroll loop, then the extractions at the top
Rank(l) ==
  LET perAdvance == AdaptiveLimit(l.variant) + 1
      inLoop == 4 + (maxScrolls - l.scrollCount) * perAdvance
  IN CASE l.pc = "done" -> 0
       [] l.pc = "top3" -> 1
       [] l.pc = "top2" -> 2
       [] l.pc = "top1" -> 3
       [] l.pc = "poll" -> inLoop - 1 - l.adaptiveLoops
       [] l.pc = "advance" -> inLoop
       [] l.pc = "bottom2" -> 5 + maxScrolls * perAdvance
       [] l.pc = "bottom1" -> 6 + maxScrolls * perAdvance
       [] OTHER -> 7 + maxScrolls * perAdvance

\* C4: a run performs at most 500 advances, each with at most 5 (turn
\* listener: 3) stabilization polls, and every step of a run brings it
\* closer to its answer, whatever the view does
C4_BoundedLoader ==
  /\ [](\A r \in Reqs :
          /\ run[r].advances <= maxScrolls
          /\ run[r].polls <= AdaptiveLimit(run[r].variant)
          /\ Rank(run[r]) >= 0)
  /\ [][\A r \in Reqs : run'[r] # run[r] => Rank(run'[r]) < Rank(run[r])]_vars

\* C4: a run left the scroll loop through the 500-step cap, its last
\* advance having used every stabilization poll
C4_Witness ==
  \E r \in Reqs :
    /\ run[r].pc = "done" /\ run[r].scrollCount = maxScrolls
    /\ run[r].advances = maxScrolls
    /\ run[r].polls = AdaptiveLimit(run[r].variant)

\* C5 as stated: a run none of whose advances moved the scroll position
\* makes at most 3 advances, whatever the scroll height does
C5_StuckExit ==
  \A r \in Reqs : ~run[r].everMoved => run[r].advances <= stuckLimit

\* C5 amended: a run none of whose advances moved the scroll position, and
\* none of whose advances saw the scroll height grow, makes at most 3 advances
C5_StuckExitNoGrowth ==
  \A r \in Reqs :
    (~run[r].everMoved /\ ~run[r].everGrew) => run[r].advances <= stuckLimit

\* C5: a run left the loop by stuck detection, away from the top, after 3
\* unmoved advances
C5_Witness ==
  \E r \in Reqs :
    /\ run[r].pc = "done" /\ ~run[r].everMoved /\ ~run[r].everGrew
    /\ run[r].advances = stuckLimit /\ run[r].stuckCount = stuckLimit
    /\ run[r].currentScrollTop > topThreshold

\* C6: the messageCount of a success response, and the length of the
\* sequence it renders, is the number of distinct fingerprints among the
\* contents the run observed; a 'No chat messages found' run observed none
C6_CountIsDistinctFingerprints ==
  \A r \in Reqs :
    /\ run[r].response.success =>
         /\ run[r].response.messageCount = Cardinality(ObservedFingerprints(run[r]))
         /\ Len(run[r].response.list) = run[r].response.messageCount
    /\ run[r].response.error = NoContentError => run[r].observed = {}

\* C6: a success response after re-reports, with fewer messages than
\* observed elements
C6_Witness ==
  \E r \in Reqs :
    /\ run[r].response.success /\ run[r].reReported
    /\ run[r].response.messageCount < Cardinality(run[r].observed)

\* the indices of the messages that are the first with their fingerprint
FirstOccurrences(m) ==
  {i \in DOMAIN m :
     \A j \in 1..(i - 1) : hashContent(m[j].content) # hashContent(m[i].content)}

\* C7: the output of deduplicateMessages is the input restricted to the
\* first message of each fingerprint, in input order
C7_StableFirstWins ==
  dStage # "in" =>
    LET keep == Ordered(FirstOccurrences(dIn))
    IN dOut = [k \in 1..Len(keep) |-> dIn[keep[k]]]

\* C7: a later message with the fingerprint of an earlier one, and another
\* content, was dropped
C7_Witness ==
  /\ dStage = "once" /\ Len(dIn) = 3 /\ Len(dOut) = 2
  /\ \E i \in DOMAIN dIn : \A k \in DOMAIN dOut : dOut[k].content # dIn[i].content

\* C8: deduplicateMessages applied to its own output returns that output
C8_Idempotent == dStage = "twice" => dOut2 = dOut

\* C8: the first application dropped a message and kept two
C8_Witness == dStage = "twice" /\ Len(dOut) < Len(dIn) /\ Len(dOut) >= 2

\* C9: at most one extraction run is between its start and its answer
C9_OnePassAtATime == Cardinality({r \in Reqs : Awaiting(run[r])}) <= 1

\* C10: a run in which an exception was thrown has sent exactly one
\* response, the 'Failed to extract chat' failure; no run sends twice, and a
\* run is over exactly when it has answered
C10_FaultIsReported ==
  \A r \in Reqs :
    /\ run[r].sent <= 1
    /\ (run[r].pc = "done") = (run[r].sent = 1)
    /\ run[r].faulted =>
         /\ run[r].sent = 1
         /\ ~run[r].response.success
         /\ run[r].response.error = FailurePrefix

\* C10: an exception after messages had been accumulated was answered with
\* the failure
C10_Witness ==
  \E r \in Reqs :
    /\ run[r].faulted /\ Len(run[r].messages) >= 2
    /\ run[r].response.error = FailurePrefix /\ run[r].sent = 1

\* C11: every message in the accumulator of a run has non-empty content
\* without leading or trailing whitespace, so an element whose normalized
\* text is empty has put no message there.
C11_ContentNonEmptyTrimmed ==
  \A r \in Reqs : \A i \in 1..Len(run[r].messages) :
    LET content == run[r].messages[i].content
    IN /\ content # <<>>
       /\ content[1] \notin Whitespace
       /\ content[Len(content)] \notin Whitespace

\* a run has taken the message of an element whose markup carries padding
C11_Witness ==
  /\ conv = ConvRepeat
  /\ \E r \in Reqs :
       /\ 3 \in run[r].observed
       /\ 1 \notin run[r].observed
       /\ \E i \in 1..Len(run[r].messages) : run[r].messages[i].content = A

\* C12: every extractChat message the popup has sent followed a tabs.query
\* whose tab URL contains 'gemini.google.com', so no more listener runs
\* exist than such queries; and after a query whose tab URL does not contain
\* it, the popup holds the notGemini result and shows the not-Gemini panel.
C12_NoMessageOffHost ==
  /\ popup.sent = popup.hostOk
  /\ pending + Cardinality({r \in Reqs : run[r].pc # "idle"}) <= popup.hostOk
  /\ (popup.pc = "idle" /\ popup.read.present
        /\ ~Includes(popup.read.url, GeminiHost))
       => popup.result = NotGeminiResult /\ popup.shown = "notGemini"

\* a click in a popup opened on a Gemini tab resolved after the tab had gone
\* to a URL that misses the host by one character
C12_Witness ==
  /\ popup.pc = "idle" /\ popup.clicks = 1
  /\ popup.read.present /\ popup.read.url = UrlNearMiss
  /\ popup.sent = 0
  /\ \A r \in Reqs : run[r].pc = "idle"

\* the role header the claim requires of a message
RoleHeader(msg) == IF msg.role = "user" THEN UserHeader ELSE GeminiHeader

\* the text between the end of the role header line and the end of block i:
\* blank line, content, blank line
AfterHeader(msg) == BlankLine \o msg.content \o BlankLine

\* doc, from offset at, holds one block for each of messages[i..], in order,
\* a rule after each block but the last, and then ends
RECURSIVE BlocksFrom(_, _, _, _)
BlocksFrom(doc, at, messages, i) ==
  IF i > Len(messages) THEN at = Len(doc) + 1
  ELSE LET msg == messages[i]
           h == RoleHeader(msg)
           afterHead == at + Len(h)
           \* the rest of the header line (a timestamp suffix, if any)
           lineEnd == CHOOSE k \in afterHead..(Len(doc) + 1) :
                        /\ k = Len(doc) + 1 \/ doc[k] = "\n"
                        /\ \A j \in afterHead..(k - 1) : doc[j] # "\n"
           body == AfterHeader(msg)
           next == lineEnd + Len(body)
       IN /\ next <= Len(doc) + 1
          /\ SubSeq(doc, at, afterHead - 1) = h
          /\ SubSeq(doc, lineEnd, next - 1) = body
          /\ IF i < Len(messages)
             THEN /\ SubSeq(doc, next, next + Len(Rule) - 1) = Rule
                  /\ BlocksFrom(doc, next + Len(Rule), messages, i + 1)
             ELSE next = Len(doc) + 1

C15_LiveTreeUnchanged ==
  (call.fn = "extractMessageContent" /\ call.returned) =>
    \A n \in 1..Len(call.before) : call.dom[n] = call.before[n]

\* the call removed a label and a button and replaced a code block and an
\* inline code element, all in the copy
C15_Witness ==
  /\ call.fn = "extractMessageContent" /\ call.returned
  /\ LET n == Len(call.before)
         live == call.before[1].children
         copy == call.dom[1 + n].children
     IN /\ Len(live) = 7
        /\ Len(copy) = 5
        /\ \A i \in DOMAIN copy : copy[i] - n # 4 /\ copy[i] - n # 18
        /\ Len(call.dom) = 2 * n + 4

\* the least position from on, at the start of a line, at which lit starts
\* in s, or 0
LineAt(s, lit, from) ==
  LET P == {i \in from..Len(s) : StartsWithAt(s, i, lit) /\ (i = 1 \/ s[i - 1] = "\n")}
  IN IF P = {} THEN 0 ELSE CHOOSE i \in P : \A j \in P : i <= j

\* s holds, one after the other: the bold text between two pairs of stars, a
\* line opening a fence with python, the lines of the two items, and the
\* link as [text](url)
MarkdownInOrder(s) ==
  LET bold == FirstAt(s, Stars \o BoldText \o Stars, 1)
      fence == IF bold = 0 THEN 0
               ELSE LineAt(s, Fence \o Python \o Newline, bold + Len(BoldText) + 4)
      first == IF fence = 0 THEN 0 ELSE LineAt(s, Dash \o ItemP \o Newline, fence + 10)
      second == IF first = 0 THEN 0 ELSE LineAt(s, Dash \o ItemQ \o Newline, first + 4)
      link == IF second = 0 THEN 0
              ELSE FirstAt(s, <<"[">> \o LinkText \o <<"]", "(">> \o LinkUrl \o <<")">>,
                           second + 4)
  IN link # 0

\* C18: the content returned for a tree holding, in this order, a bold run, a
\* code block tagged python, a list of two items and a link holds, in that
\* order, the bold text wrapped in '**', a fence opening with ```python, two
\* lines beginning with '- ' and the link as [text](url).
C18_MarkdownInOrder ==
  (call.fn = "extractMessageContent" /\ call.returned) => MarkdownInOrder(call.content)

\* what remains true: a bold element written without any attribute is wrapped
PlainBoldInOrder ==
  (call.fn = "extractMessageContent" /\ call.returned /\ call.before[2].cls = <<>>)
     => MarkdownInOrder(call.content)

\* the part of a file name between 'gemini-' and '-<date>.md'
TitlePart(filename) ==
  SubSeq(filename, Len(GeminiDash) + 1,
         Len(filename) - Len(DotMd) - Len(SplitFirst(IsoNow, <<"T">>)) - 1)

\* C16: the file name is gemini-<t>-<ISO date>.md, where <t> has only the
\* characters a-z, 0-9 and single '-' separators, has at most 50 characters,
\* and neither begins nor ends with '-', for every title.
C16_SafeFilename ==
  (call.fn = "generateFilename" /\ call.returned) =>
     LET f == call.filename
         t == TitlePart(f)
     IN /\ f = GeminiDash \o t \o <<"-", "2", "0", "2", "6", "-", "1", "1", "-", "0", "4">>
                 \o DotMd
        /\ \A i \in DOMAIN t : t[i] \in SafeChars \cup {"-"}
        /\ \A i \in 1..(Len(t) - 1) : ~(t[i] = "-" /\ t[i + 1] = "-")
        /\ Len(t) <= 50
        /\ t # <<>> => (t[1] # "-" /\ t[Len(t)] # "-")

\* the candidate of selector k is missing or its text is exactly 'Gemini'
GeminiOrNone(doc, k) ==
  ~doc.found[k].present \/ Trim(doc.found[k].text) = Gemini

\* an ordinary candidate: some text, short, without the word
Ordinary(c) ==
  /\ c.present /\ Trim(c.text) # <<>> /\ Len(Trim(c.text)) < TitleLimit
  /\ ~Includes(toLowerCase(c.text), GeminiLower)

\* C17: getChatTitle never returns a candidate whose text is exactly
\* 'Gemini'; when the candidates before an ordinary one are missing or
\* exactly 'Gemini' that one is returned, and when all are, the page title
\* is returned if it has text and does not contain 'gemini', and 'Gemini
\* Chat Export' otherwise.
C17_GeminiRejected ==
  (call.fn = "getChatTitle" /\ call.returned) =>
     LET doc == call.doc
     IN /\ call.title # Gemini
        /\ \A j \in 1..4 :
             ((\A k \in 1..(j - 1) : GeminiOrNone(doc, k)) /\ Ordinary(doc.found[j]))
                => call.title = Trim(doc.found[j].text)
        /\ (\A k \in 1..4 : GeminiOrNone(doc, k)) =>
             call.title = (IF doc.title # <<>>
                                /\ ~Includes(toLowerCase(doc.title), GeminiLower)
                           THEN doc.title ELSE DefaultTitle)

\* the first candidate is 'Gemini' and the title of the second is returned
C17_Witness ==
  /\ call.fn = "getChatTitle" /\ call.returned
  /\ call.doc.found[1] = ElementWith(Gemini)
  /\ call.doc.found[2] = ElementWith(MyChat)
  /\ call.title = MyChat

\* C19: a stabilization poll ends the polling early (before the cap on polls
\* is reached) only if neither the scroll height nor the number of
\* accumulated messages changed since the poll before it; a poll that added
\* messages without a change of the scroll height goes on polling.
C19_StableOnlyWhenUnchanged ==
  [][\A r \in Reqs :
       (/\ run[r].pc = "poll" /\ run'[r].pc # "poll" /\ ~run'[r].faulted
        /\ run'[r].adaptiveLoops < AdaptiveLimit(run[r].variant))
          => /\ scrollHeight = run[r].currentScrollHeight
             /\ Len(run'[r].messages) = Len(run[r].messages)]_vars

\* C20: in the turn variant the sequence deduplicateMessages(messages).reverse()
\* lists the observed messages in conversation order, oldest first and a
\* turn's user message before its reply, for every traversal, also when one
\* extraction pass adds more than one message.
C20_TurnChronological ==
  \A r \in Reqs :
    (run[r].variant = "turn" /\ run[r].response.success) =>
      InConversationOrder(run[r].response.list, run[r].observed, 0)

\* C21: in the prepend variant, when every batch the two bottom passes found
\* was newer than everything accumulated and every batch a later pass found
\* was older (each batch being in document order), the sequence the listener
\* renders is in conversation order, oldest first
C21_ChronologicalWhenOrderly ==
  \A r \in Reqs :
    (run[r].variant = "prepend" /\ run[r].orderly /\ run[r].response.success) =>
      InConversationOrder(run[r].response.list, run[r].observed, 0)

\* C21: a success response of three messages, of which the bottom passes
\* appended some and the passes of the scroll loop or at the top prepended
\* the others, every batch on the right side of the accumulated ones
C21_Witness ==
  \E r \in Reqs :
    /\ run[r].variant = "prepend" /\ run[r].orderly /\ run[r].response.success
    /\ run[r].added = {"append", "prepend"}
    /\ Len(run[r].response.list) = 3 /\ run[r].advances >= 1

\* C22: the sequence the prepend listener renders equals the deduplication
\* of the accumulator that the same batches give when the Seen-Set test is
\* left out of every pass
C22_FinalPassAlone ==
  \A r \in Reqs :
    (run[r].variant = "prepend" /\ run[r].response.success) =>
      run[r].response.list = deduplicateMessages(run[r].unfiltered)

\* C23: however the scroll loop of the prepend listener ends, the step that
\* leaves it sets the scroll position to 0, every setScrollTop(0) of the
\* loader leaves the position at 0, and a loader that ran to its end last
\* positioned the view with setScrollTop(0) and last of all extracted
C23_EndsWithExtractionAtTop ==
  /\ [](\A r \in Reqs :
          (run[r].variant = "prepend" /\ run[r].pc = "done" /\ ~run[r].faulted) =>
            /\ run[r].lastScroll = "setScrollTop(0)"
            /\ run[r].lastAct = "extract")
  /\ [][\A r \in Reqs :
          /\ (run[r].pc # "top1" /\ run'[r].pc = "top1") =>
               /\ run[r].pc = "poll"
               /\ run'[r].lastScroll = "setScrollTop(0)" /\ run'[r].lastAct = "scroll"
          /\ (run'[r] # run[r] /\ run'[r].lastScroll = "setScrollTop(0)"
                /\ run'[r].lastAct = "scroll") => scrollTop' = 0
          /\ (run[r].pc # "done" /\ run'[r].pc = "done" /\ ~run'[r].faulted
                /\ run'[r].variant = "prepend") =>
               run[r].pc = "top3" /\ scrollTop' = scrollTop]_vars

\* C23: a prepend loader that left the scroll loop by stuck detection, away
\* from the top, has answered
C23_Witness ==
  \E r \in Reqs :
    /\ run[r].variant = "prepend" /\ run[r].pc = "done" /\ ~run[r].faulted
    /\ run[r].stuckCount >= stuckLimit /\ run[r].currentScrollTop > topThreshold
    /\ run[r].lastAct = "extract"

\* the class name holds a word of the user vocabulary, in any case
UserClass(el) ==
  \E w \in {User, Query, Human, Prompt} : Includes(toLowerCase(el.className), w)

\* C24: an element with a data-message-author-role other than 'user' is
\* classified assistant whatever its class name, one with the value 'user'
\* is classified user, and the class name decides only without the attribute
C24_AttributeWins ==
  (call.fn = "determineMessageRole" /\ call.returned) =>
    IF call.el.hasRole
    THEN call.role = (IF call.el.role = User THEN "user" ELSE "assistant")
    ELSE call.role = (IF UserClass(call.el) THEN "user" ELSE "assistant")

\* the value is a decimal integer: digits, after white space and a sign if any
Unsigned(value) ==
  LET trimmed == TrimStart(value)
  IN IF trimmed # <<>> /\ Head(trimmed) \in {"-", "+"} THEN Tail(trimmed) ELSE trimmed
Negative(value) == TrimStart(value) # <<>> /\ Head(TrimStart(value)) = "-"
Numeric(value) ==
  Unsigned(value) # <<>> /\ \A i \in DOMAIN Unsigned(value) : IsDigit(Unsigned(value)[i])

\* C25: a numeric value is rendered as the Unix time it names, in seconds
\* when it has at most 10 digits and in milliseconds otherwise; a value that
\* is not numeric is rendered as the date it spells when it is a date-time
\* string, and is returned as it is otherwise
C25_UnixTimeOnlyWhenNumeric ==
  (call.fn = "formatTimestamp" /\ call.returned) =>
    call.result =
      IF Numeric(call.value)
      THEN toLocaleString(DateOfNumber(
             IF Len(StripZeros(Unsigned(call.value))) <= TenDigits
             THEN Times1000(Number(Negative(call.value), Unsigned(call.value)))
             ELSE Number(Negative(call.value), Unsigned(call.value))))
      ELSE IF DateOfString(call.value).valid
      THEN toLocaleString(DateOfString(call.value))
      ELSE AsIs(call.value)

\* the text has three newlines in a row
ThreeNewlines(s) ==
  \E i \in 1..(Len(s) - 2) : s[i] = "\n" /\ s[i + 1] = "\n" /\ s[i + 2] = "\n"
\* a line of the text ends in a space or a tab
BlankAtLineEnd(s) ==
  \E i \in DOMAIN s : s[i] \in {" ", "\t"} /\ (i = Len(s) \/ s[i + 1] = "\n")
\* the text begins or ends with white space
Untrimmed(s) == s # <<>> /\ (s[1] \in Whitespace \/ s[Len(s)] \in Whitespace)

\* C26: the text htmlToMarkdown returns has no three newlines in a row, no
\* line ending in a space or a tab, and no white space at its start or end
C26_WhitespaceCleaned ==
  (call.fn = "extractMessageContent" /\ call.returned) =>
    /\ ~ThreeNewlines(call.content)
    /\ ~BlankAtLineEnd(call.content)
    /\ ~Untrimmed(call.content)

\* the code block of a tree of code: its pre element and the fence it becomes
PreOf(tree) == CHOOSE n \in DOMAIN tree : tree[n].tag = "pre"
Fenced(tree) ==
  Fence \o detectCodeLanguage(tree, tree[PreOf(tree)].children[1]) \o Newline
    \o textContent(tree, PreOf(tree)) \o Newline \o Fence

\* C27: the content holds the opening fence line, then the text of the code
\* block character for character, then a newline and the closing fence
C27_CodeVerbatim ==
  (call.fn = "extractMessageContent" /\ call.returned /\ call.family = "code") =>
    Includes(call.content, Fenced(call.before))

\* the text of the leaf element of a tree of label-like text
LeafText(tree) == tree[Len(tree)].text

\* C28: a reply that is the single word 'You' or 'Gemini' in a leaf element,
\* and a sentence that begins with 'You said' or 'Gemini said', at the start
\* of the message or after a paragraph, are in the content as they were
C28_TextKept ==
  (call.fn = "extractMessageContent" /\ call.returned /\ call.family = "label") =>
    Includes(call.content, LeafText(call.before))

\* the elements below the container that match one of the three patterns and
\* have no such element among their ancestors below the container
Topmost(doc, container) ==
  SelectSeq(Inside(doc, container),
            LAMBDA n : /\ MatchesPatterns(doc, n)
                       /\ \A a \in AncestorsOf(doc, n) :
                            container \in AncestorsOf(doc, a) => ~MatchesPatterns(doc, a))

\* C29: in the fallback locator, an element that has an element matching the
\* role-attribute, 'query' or 'response' patterns among its ancestors below
\* the container is never processed, and the elements processed are exactly
\* the topmost matching elements, in document order.
C29_TopmostProcessed ==
  (call.fn = "extractFromMainContent" /\ call.returned)
    => call.potentialMessages = Topmost(call.doc, call.container)

\* the first half alone: no processed element has a matching ancestor below
\* the container
NestedNeverProcessed ==
  (call.fn = "extractFromMainContent" /\ call.returned)
    => \A i \in DOMAIN call.potentialMessages :
         \A a \in AncestorsOf(call.doc, call.potentialMessages[i]) :
           call.container \in AncestorsOf(call.doc, a) => ~MatchesPatterns(call.doc, a)

\* with no 'query' or 'response' class on the container or above it, the
\* elements processed are the topmost ones
TopmostWhenOutsidePlain ==
  (/\ call.fn = "extractFromMainContent" /\ call.returned
   /\ \A a \in {call.container} \cup AncestorsOf(call.doc, call.container) :
        ~ClassHas(call.doc, a, Query) /\ ~ClassHas(call.doc, a, Response))
    => call.potentialMessages = Topmost(call.doc, call.container)

\* C30: an advance moves the scroll position by a step that is never more than
\* the viewport height, and the view after it overlaps the view before it,
\* for every viewport height.
C30_StepWithinViewport ==
  (call.fn = "advance" /\ call.returned)
    => /\ call.scrollStep <= clientHeight
       /\ call.previousScrollTop - scrollTop < clientHeight

\* the same, for the viewports taller than the least step (400 pixels in the
\* prepend listener, 500 in the turn listener)
StepWithinTallViewport ==
  (/\ call.fn = "advance" /\ call.returned
   /\ clientHeight > (IF call.variant = "prepend" THEN 400 ELSE 500))
    => /\ call.scrollStep <= clientHeight
       /\ call.previousScrollTop - scrollTop < clientHeight

\* the accumulator new is the accumulator old with messages added in front of
\* it or behind it
Grown(old, new) ==
  /\ Len(new) >= Len(old)
  /\ \/ SubSeq(new, 1, Len(old)) = old
     \/ SubSeq(new, Len(new) - Len(old) + 1, Len(new)) = old

\* C31: after every extraction pass the Seen-Set of a run is exactly the set
\* of fingerprints of its accumulated messages; a step of a run only adds
\* messages to its accumulator, in front or behind, and changes none; and
\* deduplicateMessages returns the accumulator as it is, so a success
\* response lists the accumulator (reversed by the turn listener).
C31_SeenSetIsAccumulator ==
  /\ [](\A r \in Reqs :
          /\ run[r].seenContent = Fingerprints(run[r].messages)
          /\ deduplicateMessages(run[r].messages) = run[r].messages
          /\ run[r].response.success =>
               run[r].response.list = IF run[r].variant = "turn"
                                      THEN Reverse(run[r].messages)
                                      ELSE run[r].messages)
  /\ [][\A r \in Reqs : Grown(run[r].messages, run'[r].messages)]_vars

\* C31: a success response of a run that met fingerprints again and added
\* messages in both modes, with three messages and three fingerprints
C31_Witness ==
  \E r \in Reqs :
    /\ run[r].response.success /\ run[r].reReported
    /\ run[r].added = {"append", "prepend"}
    /\ Len(run[r].messages) = 3 /\ Cardinality(run[r].seenContent) = 3
    /\ run[r].response.list = run[r].messages

\* the number of messages of a sequence with the fingerprint hash
CountOf(msgs, hash) ==
  Cardinality({k \in DOMAIN msgs : hashContent(msgs[k].content) = hash})

\* C32: deduplication ignores the role.  Of the elements a run has observed,
\* those with one fingerprint give one accumulated message, whatever their
\* roles and whether or not they are different turns of the conversation, and
\* a success response lists one message for each fingerprint observed.
C32_OneMessagePerFingerprint ==
  \A r \in Reqs :
    \A i \in run[r].observed :
      LET hash == hashContent(extractMessageContent(conv[i]))
      IN /\ CountOf(run[r].messages, hash) = 1
         /\ run[r].response.success => CountOf(run[r].response.list, hash) = 1

\* C32: a success response with one message, of a run that observed a user
\* query and a model response with the same fingerprint
C32_Witness ==
  \E r \in Reqs :
    /\ run[r].response.success /\ Len(run[r].response.list) = 1
    /\ \E i, j \in run[r].observed :
         /\ RoleOf(conv[i]) # RoleOf(conv[j])
         /\ hashContent(extractMessageContent(conv[i]))
              = hashContent(extractMessageContent(conv[j]))

\* the repeated turn: a success response with two messages, of a run that
\* observed the same user query in two turns
RepeatedTurnDropped ==
  \E r \in Reqs :
    /\ run[r].response.success /\ Len(run[r].response.list) = 2
    /\ \E i, j \in run[r].observed :
         /\ i # j /\ RoleOf(conv[i]) = RoleOf(conv[j])
         /\ hashContent(extractMessageContent(conv[i]))
              = hashContent(extractMessageContent(conv[j]))

\* C33: in the popup both buttons are disabled while a call of handleExport or
\* handleCopy has not finished, so at most one is in progress in a popup; and
\* when none is in progress, after a success, an extraction failure, a tab
\* that is not Gemini's or an exception, both buttons are enabled.
C33_ButtonsDisabledWhileRunning ==
  /\ popup.running <= 1
  /\ popup.running = 1 <=> popup.pc \in {"query", "waiting"}
  /\ popup.running = 1 => popup.exportDisabled /\ popup.copyDisabled
  /\ popup.running = 0 => ~popup.exportDisabled /\ ~popup.copyDisabled

\* C33: the second operation of a popup has ended in the catch block, and the
\* buttons are enabled
C33_Witness ==
  /\ popup.pc = "idle" /\ popup.clicks = 2 /\ popup.running = 0
  /\ popup.shown = "error" /\ popup.result.error = HandlerFailed
  /\ ~popup.exportDisabled /\ ~popup.copyDisabled

\* C34: handleExport shows its success message in the step in which the
\* extraction result arrives and the 'download' message is sent, before the
\* background script has read the message; and no response of the background
\* script, that of a failed download included, changes the popup: the error
\* panel is not shown and the success message stays.
C34_SuccessBeforeDownload ==
  [][/\ Len(call'.downloads) > Len(call.downloads) =>
          /\ popup.pc = "waiting" /\ popup.handler = "export"
          /\ popup'.pc = "idle" /\ popup'.shown = "success"
          /\ call'.downloads[Len(call'.downloads)].pc = "sent"
     /\ (\E i \in DOMAIN call.downloads :
           call'.downloads[i].responses # call.downloads[i].responses)
          => popup' = popup]_vars

\* C34: the popup shows the success message of an export whose download has
\* failed in the background script
C34_Witness ==
  /\ popup.pc = "idle" /\ popup.handler = "export" /\ popup.shown = "success"
  /\ call.downloads # <<>>
  /\ call.downloads[Len(call.downloads)].pc = "failed"
  /\ ~call.downloads[Len(call.downloads)].response.success

\* what the listener has done for a download, by where it is
Settled(d) ==
  CASE d.pc \in {"sent", "downloading"} ->
         d.responses = 0 /\ d.revoked = 0 /\ ~d.timer
    [] d.pc = "started" ->
         /\ d.responses = 1 /\ d.response = [success |-> TRUE, error |-> ""]
         /\ d.revoked = 0 /\ d.timer
    [] d.pc = "cleaned" ->
         /\ d.responses = 1 /\ d.response = [success |-> TRUE, error |-> ""]
         /\ d.revoked = 1 /\ ~d.timer
    [] d.pc = "failed" ->
         /\ d.responses = 1 /\ ~d.response.success
         /\ d.response.error \in DownloadErrors
         /\ d.revoked = 1 /\ ~d.timer

\* C35: for a 'download' message the background script calls sendResponse
\* once, with success true when the download started and with success false
\* and the error message when it did not; the blob URL is revoked once, in
\* the catch block when the download failed, and by the timer, which runs,
\* when it started; before the timer runs it is not revoked.
C35_OneResponseOneRevocation ==
  /\ [](\A i \in DOMAIN call.downloads : Settled(call.downloads[i]))
  /\ [][\A i \in DOMAIN call.downloads :
          /\ call'.downloads[i].responses >= call.downloads[i].responses
          /\ call'.downloads[i].revoked >= call.downloads[i].revoked]_vars
  /\ \A i \in 1..MaxDownloads :
       (i \in DOMAIN call.downloads /\ call.downloads[i].pc = "started")
         ~> (/\ i \in DOMAIN call.downloads
             /\ call.downloads[i].pc = "cleaned" /\ call.downloads[i].revoked = 1)

\* C35: one download has started and its URL was revoked by the timer,
\* another has failed, and each was answered once
C35_Witness ==
  \E i, j \in DOMAIN call.downloads :
    /\ call.downloads[i].pc = "cleaned" /\ call.downloads[i].revoked = 1
    /\ call.downloads[i].responses = 1 /\ call.downloads[i].response.success
    /\ call.downloads[j].pc = "failed" /\ call.downloads[j].revoked = 1
    /\ call.downloads[j].responses = 1 /\ ~call.downloads[j].response.success

====
